---- MODULE Spec2Model ----
(***************************************************************************)
(* Model of hotpot: the TOTP engine (src/src/totp.rs).                     *)
(*                                                                         *)
(* Representation.  TLC integers are 32-bit signed, so                     *)
(*   - a Rust String is a sequence of one-character strings;               *)
(*   - a byte vector is a sequence of integers 0..255;                     *)
(*   - a u64 is its to_be_bytes() image: 8 bytes, most significant first;  *)
(*   - a u32 whose top bit matters is a pair of 16-bit limbs <<hi, lo>>;   *)
(*   - a hash word (32 or 64 bits) is a sequence of 2 or 4 16-bit limbs,   *)
(*     most significant first.                                             *)
(***************************************************************************)
EXTENDS Integers, Sequences, FiniteSets, TLC

(***************************************************************************)
(* Bit operations on naturals                                              *)
(***************************************************************************)
RECURSIVE BitAndRec(_, _)
BitAndRec(a, b) ==
    IF a = 0 \/ b = 0 THEN 0
    ELSE (a % 2) * (b % 2) + 2 * BitAndRec(a \div 2, b \div 2)

\* AND of two 4-bit values, tabulated: entry 16 * a + b + 1
RECURSIVE NibbleAndRow(_, _)
NibbleAndRow(a, b) ==
    IF b = 16 THEN <<>>
    ELSE <<BitAndRec(a, b)>> \o NibbleAndRow(a, b + 1)

RECURSIVE NibbleAndFrom(_)
NibbleAndFrom(a) ==
    IF a = 16 THEN <<>>
    ELSE NibbleAndRow(a, 0) \o NibbleAndFrom(a + 1)

NibbleAnd == NibbleAndFrom(0)

\* a & b for 0 <= a, b < 2^16
BitAnd(a, b) ==
    NibbleAnd[16 * (a % 16) + (b % 16) + 1]
    + 16 * NibbleAnd[16 * ((a \div 16) % 16) + ((b \div 16) % 16) + 1]
    + 256 * NibbleAnd[16 * ((a \div 256) % 16) + ((b \div 256) % 16) + 1]
    + 4096 * NibbleAnd[16 * (a \div 4096) + (b \div 4096) + 1]

\* a ^ b for 0 <= a, b < 2^16
BitXor(a, b) == a + b - 2 * BitAnd(a, b)

Pow2 ==
    <<1, 2, 4, 8, 16, 32, 64, 128, 256, 512, 1024, 2048, 4096, 8192, 16384, 32768, 65536>>

TwoTo(n) == Pow2[n + 1]

(***************************************************************************)
(* Iteration.  Iterate(f, x, t, n) is the value of x after the loop        *)
(*     for i in t .. t + n - 1 { x = f(x, i) }                             *)
(* The loop is split in halves.  TLC evaluates a definition of a LET only  *)
(* when it is used, so the first half is tested (no value of the loops     *)
(* below is the empty sequence) before the second half starts: the         *)
(* evaluation stack then stays shallow.  The tests `= <<>>` of the hash    *)
(* functions below serve the same purpose and are never true.              *)
(***************************************************************************)
RECURSIVE Iterate(_, _, _, _)
Iterate(f(_, _), x, t, n) ==
    IF n = 0 THEN x
    ELSE IF n = 1 THEN f(x, t)
    ELSE LET half == n \div 2
             left == Iterate(f, x, t, half)
         IN  IF left = <<>> THEN <<>>
             ELSE Iterate(f, left, t + half, n - half)

(***************************************************************************)
(* Hash words: sequences of 16-bit limbs, most significant limb first      *)
(***************************************************************************)
RECURSIVE WMap2(_, _, _)
WMap2(Op(_, _), a, b) ==
    IF a = <<>> THEN <<>>
    ELSE <<Op(Head(a), Head(b))>> \o WMap2(Op, Tail(a), Tail(b))

WXor(a, b) == WMap2(BitXor, a, b)
WAnd(a, b) == WMap2(BitAnd, a, b)

BitNotAnd(x, z) == BitAnd(65535 - x, z)

\* a + b + carry modulo 2^(16 * Len(a))
RECURSIVE WAddCarry(_, _, _)
WAddCarry(a, b, carry) ==
    IF a = <<>> THEN <<>>
    ELSE Append(WAddCarry(SubSeq(a, 1, Len(a) - 1), SubSeq(b, 1, Len(b) - 1),
                          (a[Len(a)] + b[Len(b)] + carry) \div 65536),
                (a[Len(a)] + b[Len(b)] + carry) % 65536)

\* wrapping_add
WAdd(a, b) == WAddCarry(a, b, 0)

\* limb i (0..Len(a)) of a moved q limbs towards the least significant end
WLimb(a, i, q, cyclic) ==
    IF i - q >= 1 THEN a[i - q]
    ELSE IF cyclic THEN a[i - q + Len(a)]
    ELSE 0

\* limbs i.. of a moved r bits (0 <= r < width) towards the least
\* significant end; the bits pushed out re-enter at the top when cyclic, and
\* are dropped otherwise
RECURSIVE WShift(_, _, _, _)
WShift(a, r, cyclic, i) ==
    IF i > Len(a) THEN <<>>
    ELSE <<(WLimb(a, i, r \div 16, cyclic) \div TwoTo(r % 16))
             + (WLimb(a, i - 1, r \div 16, cyclic) % TwoTo(r % 16)) * TwoTo(16 - (r % 16))>>
         \o WShift(a, r, cyclic, i + 1)

\* rotate_right, rotate_left and logical shift right by r bits, 0 <= r < width
Rotr(a, r) == WShift(a, r, TRUE, 1)
Rotl(a, r) == Rotr(a, (16 * Len(a) - r) % (16 * Len(a)))
Shr(a, r) == WShift(a, r, FALSE, 1)

Ch(x, y, z) == WXor(WAnd(x, y), WMap2(BitNotAnd, x, z))
Maj(x, y, z) == WXor(WXor(WAnd(x, y), WAnd(x, z)), WAnd(y, z))
Parity(x, y, z) == WXor(WXor(x, y), z)

(***************************************************************************)
(* Bytes <-> words, message padding                                        *)
(***************************************************************************)
\* The recursions over byte sequences halve their argument, so that their
\* depth is logarithmic in its length.
RECURSIVE Zeros(_)
Zeros(n) ==
    IF n <= 0 THEN <<>>
    ELSE IF n = 1 THEN <<0>>
    ELSE Zeros(n \div 2) \o Zeros(n - (n \div 2))

\* big-endian image of the natural v < 2^31 in n >= 4 bytes
BeBytes(v, n) ==
    Zeros(n - 4)
        \o <<(v \div 16777216) % 256, (v \div 65536) % 256, (v \div 256) % 256, v % 256>>

\* Len(bs) is even
RECURSIVE BytesToLimbs(_)
BytesToLimbs(bs) ==
    IF bs = <<>> THEN <<>>
    ELSE IF Len(bs) = 2 THEN <<256 * bs[1] + bs[2]>>
    ELSE LET h == 2 * (Len(bs) \div 4)
         IN  BytesToLimbs(SubSeq(bs, 1, h)) \o BytesToLimbs(SubSeq(bs, h + 1, Len(bs)))

RECURSIVE LimbsToBytes(_)
LimbsToBytes(ls) ==
    IF ls = <<>> THEN <<>>
    ELSE IF Len(ls) = 1 THEN <<ls[1] \div 256, ls[1] % 256>>
    ELSE LET h == Len(ls) \div 2
         IN  LimbsToBytes(SubSeq(ls, 1, h)) \o LimbsToBytes(SubSeq(ls, h + 1, Len(ls)))

\* split a limb sequence into words of w limbs
RECURSIVE LimbsToWords(_, _)
LimbsToWords(ls, w) ==
    IF ls = <<>> THEN <<>>
    ELSE IF Len(ls) = w THEN <<ls>>
    ELSE LET h == w * ((Len(ls) \div w) \div 2)
         IN  LimbsToWords(SubSeq(ls, 1, h), w) \o LimbsToWords(SubSeq(ls, h + 1, Len(ls)), w)

RECURSIVE WordsToLimbs(_)
WordsToLimbs(ws) ==
    IF ws = <<>> THEN <<>>
    ELSE IF Len(ws) = 1 THEN ws[1]
    ELSE LET h == Len(ws) \div 2
         IN  WordsToLimbs(SubSeq(ws, 1, h)) \o WordsToLimbs(SubSeq(ws, h + 1, Len(ws)))

\* Merkle-Damgard padding: 0x80, zeros, then the bit length in lenBytes
\* bytes, filling a whole number of blocks of `block` bytes
MdPad(msg, block, lenBytes) ==
    LET used == (Len(msg) + 1 + lenBytes) % block
        fill == IF used = 0 THEN 0 ELSE block - used
    IN  msg \o <<128>> \o Zeros(fill) \o BeBytes(8 * Len(msg), lenBytes)

\* element-wise wrapping_add of two sequences of words
RECURSIVE WAddAll(_, _)
WAddAll(hs, vs) ==
    IF hs = <<>> THEN <<>>
    ELSE IF Len(hs) = 1 THEN <<WAdd(hs[1], vs[1])>>
    ELSE LET h == Len(hs) \div 2
         IN  WAddAll(SubSeq(hs, 1, h), SubSeq(vs, 1, h))
                 \o WAddAll(SubSeq(hs, h + 1, Len(hs)), SubSeq(vs, h + 1, Len(vs)))

(***************************************************************************)
(* SHA-1 (FIPS 180-4 section 6.1), as computed by Hmac::<Sha1>             *)
(***************************************************************************)
SHA1_H0 ==
    << <<26437, 8961>>, <<61389, 43913>>, <<39098, 56574>>, <<4146, 21622>>, <<50130, 57840>> >>
SHA1_K ==
    << <<23170, 31129>>, <<28377, 60321>>, <<36635, 48348>>, <<51810, 49622>> >>

\* message schedule: W extended by its word of index t (from 0)
Sha1ScheduleWord(W, t) ==
    Append(W, Rotl(WXor(WXor(W[t - 2], W[t - 7]), WXor(W[t - 13], W[t - 15])), 1))

Sha1Schedule(W) == Iterate(Sha1ScheduleWord, W, 16, 64)

Sha1F(t, b, c, d) ==
    IF t < 20 THEN Ch(b, c, d)
    ELSE IF t < 40 THEN Parity(b, c, d)
    ELSE IF t < 60 THEN Maj(b, c, d)
    ELSE Parity(b, c, d)

\* round t (from 0) applied to the working variables v = <<a, b, c, d, e>>
Sha1Round(v, W, t) ==
    LET T == WAdd(WAdd(WAdd(Rotl(v[1], 5), Sha1F(t, v[2], v[3], v[4])),
                       WAdd(v[5], SHA1_K[(t \div 20) + 1])),
                  W[t + 1])
    IN  <<T, v[1], Rotl(v[2], 30), v[3], v[4]>>

Sha1Rounds(h, W) ==
    IF W = <<>> THEN <<>>
    ELSE WAddAll(h, Iterate(LAMBDA v, t : Sha1Round(v, W, t), h, 0, 80))

Sha1Compress(h, blockBytes) ==
    Sha1Rounds(h, Sha1Schedule(LimbsToWords(BytesToLimbs(blockBytes), 2)))

RECURSIVE Sha1Blocks(_, _)
Sha1Blocks(h, bytes) ==
    IF h = <<>> \/ bytes = <<>> THEN h
    ELSE Sha1Blocks(Sha1Compress(h, SubSeq(bytes, 1, 64)), SubSeq(bytes, 65, Len(bytes)))

Sha1(msg) == LimbsToBytes(WordsToLimbs(Sha1Blocks(SHA1_H0, MdPad(msg, 64, 8))))

SHA256_H0 ==
    << <<27145, 58983>>, <<47975, 44677>>, <<15470, 62322>>, <<42319, 62778>>,
       <<20750, 21119>>, <<39685, 26764>>, <<8067, 55723>>, <<23520, 52505>> >>
SHA256_K ==
    << <<17034, 12184>>, <<28983, 17553>>, <<46528, 64463>>, <<59829, 56229>>,
       <<14678, 49755>>, <<23025, 4593>>, <<37439, 33444>>, <<43804, 24277>>,
       <<55303, 43672>>, <<4739, 23297>>, <<9265, 34238>>, <<21772, 32195>>,
       <<29374, 23924>>, <<32990, 45566>>, <<39900, 1703>>, <<49563, 61812>>,
       <<58523, 27073>>, <<61374, 18310>>, <<4033, 40390>>, <<9228, 41420>>,
       <<11753, 11375>>, <<19060, 33962>>, <<23728, 43484>>, <<30457, 35034>>,
       <<38974, 20818>>, <<43057, 50797>>, <<45059, 10184>>, <<48985, 32711>>,
       <<50912, 3059>>, <<54695, 37191>>, <<1738, 25425>>, <<5161, 10599>>,
       <<10167, 2693>>, <<11803, 8504>>, <<19756, 28156>>, <<21304, 3347>>,
       <<25866, 29524>>, <<30314, 2747>>, <<33218, 51502>>, <<37490, 11397>>,
       <<41663, 59553>>, <<43034, 26187>>, <<49739, 35696>>, <<51052, 20899>>,
       <<53650, 59417>>, <<54937, 1572>>, <<62478, 13701>>, <<4202, 41072>>,
       <<6564, 49430>>, <<7735, 27656>>, <<10056, 30540>>, <<13488, 48309>>,
       <<14620, 3251>>, <<20184, 43594>>, <<23452, 51791>>, <<26670, 28659>>,
       <<29839, 33518>>, <<30885, 25455>>, <<33992, 30740>>, <<36039, 520>>,
       <<37054, 65530>>, <<42064, 27883>>, <<48889, 41975>>, <<50801, 30962>> >>
SHA512_H0 ==
    << <<27145, 58983, 62396, 51464>>, <<47975, 44677, 33994, 42811>>,
       <<15470, 62322, 65172, 63531>>, <<42319, 62778, 24349, 14065>>,
       <<20750, 21119, 44518, 33489>>, <<39685, 26764, 11070, 27679>>,
       <<8067, 55723, 64321, 48491>>, <<23520, 52505, 4990, 8569>> >>
SHA512_K ==
    << <<17034, 12184, 55080, 44578>>, <<28983, 17553, 9199, 26061>>,
       <<46528, 64463, 60493, 15151>>, <<59829, 56229, 33161, 56252>>,
       <<14678, 49755, 62280, 46392>>, <<23025, 4593, 46597, 53273>>,
       <<37439, 33444, 44825, 20379>>, <<43804, 24277, 55917, 33048>>,
       <<55303, 43672, 41731, 578>>, <<4739, 23297, 17776, 28606>>,
       <<9265, 34238, 20196, 45708>>, <<21772, 32195, 54783, 46306>>,
       <<29374, 23924, 62075, 35183>>, <<32990, 45566, 15126, 38577>>,
       <<39900, 1703, 9671, 4661>>, <<49563, 61812, 53097, 9876>>,
       <<58523, 27073, 40689, 19154>>, <<61374, 18310, 14415, 9699>>,
       <<4033, 40390, 35724, 54709>>, <<9228, 41420, 30636, 40037>>,
       <<11753, 11375, 22827, 629>>, <<19060, 33962, 28326, 58499>>,
       <<23728, 43484, 48449, 64468>>, <<30457, 35034, 33553, 21429>>,
       <<38974, 20818, 61030, 57259>>, <<43057, 50797, 11700, 12816>>,
       <<45059, 10184, 39163, 8511>>, <<48985, 32711, 48879, 3812>>,
       <<50912, 3059, 15784, 36802>>, <<54695, 37191, 37642, 42789>>,
       <<1738, 25425, 57347, 33391>>, <<5161, 10599, 2574, 28272>>,
       <<10167, 2693, 18130, 12284>>, <<11803, 8504, 23590, 51494>>,
       <<19756, 28156, 23236, 10989>>, <<21304, 3347, 40341, 46047>>,
       <<25866, 29524, 35759, 25566>>, <<30314, 2747, 15479, 45736>>,
       <<33218, 51502, 18413, 44774>>, <<37490, 11397, 5250, 13627>>,
       <<41663, 59553, 19697, 868>>, <<43034, 26187, 48194, 12289>>,
       <<49739, 35696, 53496, 38801>>, <<51052, 20899, 1620, 48688>>,
       <<53650, 59417, 55023, 21016>>, <<54937, 1572, 21861, 43280>>,
       <<62478, 13701, 22385, 8234>>, <<4202, 41072, 12987, 53688>>,
       <<6564, 49430, 47314, 53448>>, <<7735, 27656, 20801, 43859>>,
       <<10056, 30540, 57230, 60313>>, <<13488, 48309, 57755, 18600>>,
       <<14620, 3251, 50633, 23139>>, <<20184, 43594, 58177, 35531>>,
       <<23452, 51791, 30563, 58227>>, <<26670, 28659, 54962, 47267>>,
       <<29839, 33518, 24047, 45820>>, <<30885, 25455, 17175, 12128>>,
       <<33992, 30740, 41456, 43890>>, <<36039, 520, 6756, 14828>>,
       <<37054, 65530, 9059, 7720>>, <<42064, 27883, 56962, 48617>>,
       <<48889, 41975, 45766, 30997>>, <<50801, 30962, 58226, 21291>>,
       <<51751, 16078, 59942, 24988>>, <<53638, 47303, 8640, 49671>>,
       <<60122, 32214, 52704, 60190>>, <<62845, 20351, 61038, 53624>>,
       <<1776, 26538, 29207, 28602>>, <<2659, 32197, 41672, 39078>>,
       <<4415, 38916, 48889, 3502>>, <<7025, 2869, 4892, 18203>>,
       <<10459, 30709, 8964, 32132>>, <<13002, 43899, 16583, 9363>>,
       <<15518, 48650, 5577, 48828>>, <<17181, 26564, 39952, 3404>>,
       <<19653, 54462, 52030, 17078>>, <<22911, 10652, 64613, 32298>>,
       <<24523, 28587, 15062, 64236>>, <<27716, 6540, 19015, 22551>> >>

(***************************************************************************)
(* SHA-256 and SHA-512 (FIPS 180-4 sections 6.2 and 6.4), as computed by   *)
(* Hmac::<Sha256> and Hmac::<Sha512>.  The two differ in word width,       *)
(* number of rounds, constants and rotation amounts only.                  *)
(***************************************************************************)
Sha256Params ==
    [ limbs |-> 2, rounds |-> 64, block |-> 64, lenBytes |-> 8,
      H0 |-> SHA256_H0, K |-> SHA256_K,
      bigSigma0 |-> <<2, 13, 22>>, bigSigma1 |-> <<6, 11, 25>>,
      smallSigma0 |-> <<7, 18, 3>>, smallSigma1 |-> <<17, 19, 10>> ]

Sha512Params ==
    [ limbs |-> 4, rounds |-> 80, block |-> 128, lenBytes |-> 16,
      H0 |-> SHA512_H0, K |-> SHA512_K,
      bigSigma0 |-> <<28, 34, 39>>, bigSigma1 |-> <<14, 18, 41>>,
      smallSigma0 |-> <<1, 8, 7>>, smallSigma1 |-> <<19, 61, 6>> ]

BigSigma(x, r) == WXor(WXor(Rotr(x, r[1]), Rotr(x, r[2])), Rotr(x, r[3]))
SmallSigma(x, r) == WXor(WXor(Rotr(x, r[1]), Rotr(x, r[2])), Shr(x, r[3]))

\* message schedule: W extended by its word of index t (from 0)
Sha2ScheduleWord(p, W, t) ==
    Append(W, WAdd(WAdd(SmallSigma(W[t - 1], p.smallSigma1), W[t - 6]),
                   WAdd(SmallSigma(W[t - 14], p.smallSigma0), W[t - 15])))

Sha2Schedule(p, W) ==
    Iterate(LAMBDA X, t : Sha2ScheduleWord(p, X, t), W, 16, p.rounds - 16)

Sha2T1(p, v, W, t) ==
    WAdd(WAdd(WAdd(v[8], BigSigma(v[5], p.bigSigma1)),
              WAdd(Ch(v[5], v[6], v[7]), p.K[t + 1])),
         W[t + 1])

Sha2T2(p, v) == WAdd(BigSigma(v[1], p.bigSigma0), Maj(v[1], v[2], v[3]))

Sha2Shift(v, T1, T2) ==
    <<WAdd(T1, T2), v[1], v[2], v[3], WAdd(v[4], T1), v[5], v[6], v[7]>>

\* round t (from 0) applied to the working variables v = <<a, ..., h>>
Sha2Round(p, v, W, t) == Sha2Shift(v, Sha2T1(p, v, W, t), Sha2T2(p, v))

Sha2Rounds(p, h, W) ==
    IF W = <<>> THEN <<>>
    ELSE WAddAll(h, Iterate(LAMBDA v, t : Sha2Round(p, v, W, t), h, 0, p.rounds))

Sha2Compress(p, h, blockBytes) ==
    Sha2Rounds(p, h, Sha2Schedule(p, LimbsToWords(BytesToLimbs(blockBytes), p.limbs)))

RECURSIVE Sha2Blocks(_, _, _)
Sha2Blocks(p, h, bytes) ==
    IF h = <<>> \/ bytes = <<>> THEN h
    ELSE Sha2Blocks(p, Sha2Compress(p, h, SubSeq(bytes, 1, p.block)),
                    SubSeq(bytes, p.block + 1, Len(bytes)))

Sha2(p, msg) ==
    LimbsToBytes(WordsToLimbs(Sha2Blocks(p, p.H0, MdPad(msg, p.block, p.lenBytes))))

(***************************************************************************)
(* HMAC (RFC 2104): Hmac::new_from_slice(key), update(msg), finalize()     *)
(***************************************************************************)
RECURSIVE XorBytes(_, _)
XorBytes(bs, c) ==
    IF bs = <<>> THEN <<>>
    ELSE IF Len(bs) = 1 THEN <<BitXor(bs[1], c)>>
    ELSE LET h == Len(bs) \div 2
         IN  XorBytes(SubSeq(bs, 1, h), c) \o XorBytes(SubSeq(bs, h + 1, Len(bs)), c)

Sha2Params(alg) == IF alg = "SHA256" THEN Sha256Params ELSE Sha512Params

\* the digest of msg under alg, one of "SHA1", "SHA256", "SHA512"
HashOf(alg, msg) == IF alg = "SHA1" THEN Sha1(msg) ELSE Sha2(Sha2Params(alg), msg)

BlockSize(alg) == IF alg = "SHA512" THEN 128 ELSE 64

ZeroPad(k, n) == k \o Zeros(n - Len(k))

\* new_from_slice accepts a key of any length: a key longer than the block
\* is hashed first, then the key is zero-padded to the block size
HmacKeyBlock(alg, key) ==
    ZeroPad(IF Len(key) > BlockSize(alg) THEN HashOf(alg, key) ELSE key, BlockSize(alg))

HmacOuter(alg, kb, inner) ==
    IF inner = <<>> THEN <<>>
    ELSE HashOf(alg, XorBytes(kb, 92) \o inner)

HmacKeyed(alg, kb, msg) ==
    IF kb = <<>> THEN <<>>
    ELSE HmacOuter(alg, kb, HashOf(alg, XorBytes(kb, 54) \o msg))

Hmac(alg, key, msg) == HmacKeyed(alg, HmacKeyBlock(alg, key), msg)


(***************************************************************************)
(* Strings                                                                 *)
(***************************************************************************)
DigitChars == <<"0", "1", "2", "3", "4", "5", "6", "7", "8", "9">>

\* u32::to_string: decimal, no sign, no leading zeros
RECURSIVE to_string(_)
to_string(n) ==
    IF n < 10 THEN <<DigitChars[n + 1]>>
    ELSE to_string(n \div 10) \o <<DigitChars[(n % 10) + 1]>>

\* slice::join
RECURSIVE join(_, _)
join(parts, sep) ==
    IF parts = <<>> THEN <<>>
    ELSE IF Len(parts) = 1 THEN parts[1]
    ELSE parts[1] \o sep \o join(Tail(parts), sep)

(***************************************************************************)
(* u64 values, as their big-endian bytes                                   *)
(***************************************************************************)
U64(n) == BeBytes(n, 8)

U64Zero == U64(0)

\* the number a u64 below 2^31 stands for
U64ToInt(b) == 16777216 * b[5] + 65536 * b[6] + 256 * b[7] + b[8]

\* a < b: the first differing byte decides
RECURSIVE BytesLess(_, _)
BytesLess(a, b) ==
    IF a = <<>> THEN FALSE
    ELSE IF Head(a) # Head(b) THEN Head(a) < Head(b)
    ELSE BytesLess(Tail(a), Tail(b))

\* a - b - borrow modulo 2^(8 * Len(a))
RECURSIVE BytesSub(_, _, _)
BytesSub(a, b, borrow) ==
    IF a = <<>> THEN <<>>
    ELSE LET n == Len(a)
             d == a[n] - b[n] - borrow
         IN  BytesSub(SubSeq(a, 1, n - 1), SubSeq(b, 1, n - 1), IF d < 0 THEN 1 ELSE 0)
                 \o <<d % 256>>

\* a + b + carry modulo 2^(8 * Len(a))
RECURSIVE BytesAdd(_, _, _)
BytesAdd(a, b, carry) ==
    IF a = <<>> THEN <<>>
    ELSE LET n == Len(a)
             s == a[n] + b[n] + carry
         IN  BytesAdd(SubSeq(a, 1, n - 1), SubSeq(b, 1, n - 1), s \div 256)
                 \o <<s % 256>>

\* u64::wrapping_sub, the subtraction without the saturation
wrapping_sub(a, b) == BytesSub(a, b, 0)

\* u64::saturating_sub
saturating_sub(a, b) == IF BytesLess(a, b) THEN U64Zero ELSE BytesSub(a, b, 0)

\* u64 / u64::from(d) for a u32 d with 0 < d < 2^23 (the intermediate values
\* of this long division, most significant byte first, stay below 2^31)
RECURSIVE BytesDivFrom(_, _, _)
BytesDivFrom(a, d, rem) ==
    IF a = <<>> THEN <<>>
    ELSE LET cur == 256 * rem + Head(a)
         IN  <<cur \div d>> \o BytesDivFrom(Tail(a), d, cur % d)

U64Div(a, d) == BytesDivFrom(a, d, 0)

(***************************************************************************)
(* u32 values whose top bit matters, as two 16-bit limbs <<hi, lo>>        *)
(***************************************************************************)
U32(n) == <<n \div 65536, n % 65536>>

\* 10 * m modulo 2^32, and whether the product exceeds 32 bits
U32Times10(m) ==
    LET lo == 10 * m[2]
        hi == 10 * m[1] + (lo \div 65536)
    IN  [value |-> <<hi % 65536, lo % 65536>>, overflow |-> hi >= 65536]

\* 10u32.pow(exp): value is 10^exp modulo 2^32, overflow tells whether
\* 10^exp exceeds 32 bits; 2^32 divides 10^exp from exp = 32 on
U32Pow10Step(p, i) ==
    LET q == U32Times10(p.value)
    IN  [value |-> q.value, overflow |-> p.overflow \/ q.overflow]

U32Pow10(exp) ==
    IF exp = 0 THEN [value |-> U32(1), overflow |-> FALSE]
    ELSE IF exp >= 32 THEN [value |-> U32(0), overflow |-> TRUE]
    ELSE Iterate(U32Pow10Step, [value |-> U32(1), overflow |-> FALSE], 1, exp)

(***************************************************************************)
(* base32::decode(Alphabet::RFC4648 { padding: false }, _)                 *)
(* src/src/totp.rs:83.  Characters are looked up in the RFC 4648           *)
(* alphabet; each gives 5 bits; every 8 characters give 5 bytes and the    *)
(* output is truncated to floor(5 * length / 8) bytes.  The secrets         *)
(* explored hold valid upper-case text, or a character that no Base32      *)
(* decoder accepts (a space, a hyphen, one of the digits 0, 1, 8, 9).      *)
(***************************************************************************)
RFC4648_ALPHABET ==
    << "A", "B", "C", "D", "E", "F", "G", "H", "I", "J", "K", "L", "M",
       "N", "O", "P", "Q", "R", "S", "T", "U", "V", "W", "X", "Y", "Z",
       "2", "3", "4", "5", "6", "7" >>

\* a lenient lookup: a character that is not in the alphabet counts as "A"
Base32ValueLenient(c) ==
    IF \E i \in 1..32 : RFC4648_ALPHABET[i] = c
    THEN (CHOOSE i \in 1..32 : RFC4648_ALPHABET[i] = c) - 1
    ELSE 0

\* the 5-bit value of a character, -1 for a character not in the alphabet
Base32Value(c) ==
    IF \E i \in 1..32 : RFC4648_ALPHABET[i] = c
    THEN (CHOOSE i \in 1..32 : RFC4648_ALPHABET[i] = c) - 1
    ELSE -1

\* 8 values of 5 bits -> 5 bytes
Base32Chunk(v) ==
    << 8 * v[1] + (v[2] \div 4),
       64 * (v[2] % 4) + 2 * v[3] + (v[4] \div 16),
       16 * (v[4] % 16) + (v[5] \div 2),
       128 * (v[5] % 2) + 4 * v[6] + (v[7] \div 8),
       32 * (v[7] % 8) + v[8] >>

RECURSIVE Base32Values(_)
Base32Values(data) ==
    IF data = <<>> THEN <<>>
    ELSE IF Len(data) = 1 THEN <<Base32Value(data[1])>>
    ELSE LET h == Len(data) \div 2
         IN  Base32Values(SubSeq(data, 1, h)) \o Base32Values(SubSeq(data, h + 1, Len(data)))

\* vs holds whole chunks of 8 values
RECURSIVE Base32Chunks(_)
Base32Chunks(vs) ==
    IF vs = <<>> THEN <<>>
    ELSE Base32Chunk(SubSeq(vs, 1, 8)) \o Base32Chunks(SubSeq(vs, 9, Len(vs)))

\* Option<Vec<u8>>
None == [some |-> FALSE, bytes |-> <<>>]
Some(bytes) == [some |-> TRUE, bytes |-> bytes]

decode(data) ==
    LET vs == Base32Values(data)
        output_length == (5 * Len(data)) \div 8
    IN  IF \E i \in 1..Len(vs) : vs[i] = -1 THEN None
        ELSE Some(SubSeq(Base32Chunks(vs \o Zeros((8 - (Len(vs) % 8)) % 8)), 1, output_length))

(***************************************************************************)
(* Account (src/src/totp.rs:10-58)                                         *)
(***************************************************************************)
S_hotpot == <<"h", "o", "t", "p", "o", "t">>
S_SHA1 == <<"S", "H", "A", "1">>
S_SHA256 == <<"S", "H", "A", "2", "5", "6">>
S_SHA512 == <<"S", "H", "A", "5", "1", "2">>

default_issuer == S_hotpot
default_algorithm == S_SHA1
default_digits == 6
default_period == 30
default_epoch == U64Zero

Account_new(name, secret) ==
    [ name |-> name, secret |-> secret, issuer |-> default_issuer,
      algorithm |-> default_algorithm, digits |-> default_digits,
      period |-> default_period, epoch |-> default_epoch ]

(***************************************************************************)
(* Account::generate_uri and generate_otpauth_uri                          *)
(***************************************************************************)
S_otpauth_totp == <<"o", "t", "p", "a", "u", "t", "h", ":", "/", "/", "t", "o", "t", "p", "/">>
S_secret == <<"s", "e", "c", "r", "e", "t">>
S_issuer == <<"i", "s", "s", "u", "e", "r">>
S_algorithm == <<"a", "l", "g", "o", "r", "i", "t", "h", "m">>
S_digits == <<"d", "i", "g", "i", "t", "s">>
S_period == <<"p", "e", "r", "i", "o", "d">>

\* a map that percent-encodes the reserved characters of each value
PercentEncodeChar(c) ==
    IF c = "&" THEN <<"%", "2", "6">>
    ELSE IF c = " " THEN <<"%", "2", "0">>
    ELSE IF c = "%" THEN <<"%", "2", "5">>
    ELSE <<c>>

RECURSIVE PercentEncode(_)
PercentEncode(s) ==
    IF s = <<>> THEN <<>> ELSE PercentEncodeChar(Head(s)) \o PercentEncode(Tail(s))

RECURSIVE MapParamsEncoded(_)
MapParamsEncoded(params) ==
    IF params = <<>> THEN <<>>
    ELSE <<Head(params)[1] \o <<"=">> \o PercentEncode(Head(params)[2])>>
             \o MapParamsEncoded(Tail(params))

\* .iter().map(|(k, v)| format!("{}={}", k, v)).collect::<Vec<_>>()
RECURSIVE MapParams(_)
MapParams(params) ==
    IF params = <<>> THEN <<>>
    ELSE <<Head(params)[1] \o <<"=">> \o Head(params)[2]>> \o MapParams(Tail(params))

generate_uri(self) ==
    LET label == self.issuer \o <<":">> \o self.name
        digits == to_string(self.digits)
        period == to_string(self.period)
        params == << <<S_secret, self.secret>>,
                     <<S_issuer, self.issuer>>,
                     <<S_algorithm, self.algorithm>>,
                     <<S_digits, digits>>,
                     <<S_period, period>> >>
        query == join(MapParams(params), <<"&">>)
    IN  S_otpauth_totp \o label \o <<"?">> \o query

generate_otpauth_uri(name, secret) == generate_uri(Account_new(name, secret))

(***************************************************************************)
(* generate_totp (src/src/totp.rs:82-129)                                  *)
(*                                                                         *)
(* An outcome is the Result<u32, AppError> returned, or the panic that     *)
(* ends the call; its field digest is the value of the local `result`      *)
(* (the HMAC output) when the call ended, <<>> if it was never computed.   *)
(***************************************************************************)
Ok(code, digest) == [kind |-> "Ok", code |-> code, message |-> "", digest |-> digest]
Err(message) == [kind |-> "Err", code |-> 0, message |-> message, digest |-> <<>>]
Panic(message, digest) ==
    [kind |-> "Panic", code |-> 0, message |-> message, digest |-> digest]
NoResult == [kind |-> "None", code |-> 0, message |-> "", digest |-> <<>>]

\* Duration::as_secs: the whole seconds, the nanoseconds dropped
as_secs(duration) == duration.secs

secret_bytes(account) == decode(account.secret)

\* the counter of an implementation that ignores account.epoch
counter_from_unix_epoch(account, duration) == U64Div(as_secs(duration), account.period)

\* the counter of an implementation that counts seconds, not periods
counter_in_seconds(account, duration) == saturating_sub(as_secs(duration), account.epoch)

\* T = (current Unix time - T0) / X, for account.period # 0 (the long
\* division of U64Div stays within TLC's integers for period < 2^23)
counter(account, duration) ==
    U64Div(saturating_sub(as_secs(duration), account.epoch), account.period)

\* u64::to_le_bytes, the counter in the wrong byte order
counter_le_bytes(account, duration) ==
    LET c == counter(account, duration)
    IN  <<c[8], c[7], c[6], c[5], c[4], c[3], c[2], c[1]>>

\* u64::to_be_bytes
counter_bytes(account, duration) == counter(account, duration)

\* a match whose default arm falls back to SHA1
AlgorithmArmFallback(algorithm) ==
    IF algorithm = S_SHA256 THEN "SHA256"
    ELSE IF algorithm = S_SHA512 THEN "SHA512"
    ELSE "SHA1"

\* the arm of `match account.algorithm.as_str()`, "_" for the default arm
AlgorithmArm(algorithm) ==
    IF algorithm = S_SHA1 THEN "SHA1"
    ELSE IF algorithm = S_SHA256 THEN "SHA256"
    ELSE IF algorithm = S_SHA512 THEN "SHA512"
    ELSE "_"

\* the digest `result` of an arm other than the default one
hmac_result(account, duration) ==
    Hmac(AlgorithmArm(account.algorithm), secret_bytes(account).bytes,
         counter_bytes(account, duration))

\* an offset taken with the mask 0x1f
offset_0x1f(result) == BitAnd(result[Len(result)], 31)

\* (result[result.len() - 1] & 0xf) as usize
offset(result) == BitAnd(result[Len(result)], 15)

\* the u32 `binary`, as limbs <<hi, lo>>; result[offset + k] of the source
\* is result[offset(result) + k + 1] here
binary(result) ==
    LET o == offset(result)
    IN  << 256 * BitAnd(result[o + 1], 127) + BitAnd(result[o + 2], 255),
           256 * BitAnd(result[o + 3], 255) + BitAnd(result[o + 4], 255) >>

\* a modulus of one digit too many
modulus_one_digit_more(account) == U32Pow10(account.digits + 1)

\* 10u32.pow(account.digits)
modulus(account) == U32Pow10(account.digits)

\* binary % modulus for binary < 2^31 and modulus # 0
U32Rem(b, m) ==
    IF m[1] >= 32768 THEN 65536 * b[1] + b[2]
    ELSE (65536 * b[1] + b[2]) % (65536 * m[1] + m[2])

\* Ok(binary % modulus); the remainder by zero panics
remainder(account, result) ==
    IF modulus(account).value = U32(0)
    THEN Panic("attempt to calculate the remainder with a divisor of zero", result)
    ELSE Ok(U32Rem(binary(result), modulus(account).value), result)

\* The set of outcomes of src/src/totp.rs:119-128 on the digest `result`.
\* It has two elements only where 10u32.pow overflows: a build with
\* overflow checks (the debug profile) panics there, a build without them
\* (the release profile) goes on with the wrapped power.
truncate(account, result) ==
    IF result = <<>> \/ offset(result) + 3 >= Len(result)
    THEN {Panic("index out of bounds", result)}
    ELSE IF modulus(account).overflow
    THEN {Panic("attempt to multiply with overflow", result), remainder(account, result)}
    ELSE {remainder(account, result)}

\* The set of outcomes of generate_totp(account, duration)
generate_totp(account, duration) ==
    IF ~secret_bytes(account).some THEN {Err("Bytes could not be decoded")}
    ELSE IF account.period = 0 THEN {Panic("attempt to divide by zero", <<>>)}
    ELSE IF AlgorithmArm(account.algorithm) = "_" THEN {Err("Unsupported algorithm")}
    ELSE truncate(account, hmac_result(account, duration))

(***************************************************************************)
(* Test data of src/src/totp.rs:140-284 (RFC 6238, Appendix B)             *)
(***************************************************************************)
S_test == <<"t", "e", "s", "t">>

\* ascii_to_base32("12345678901234567890")
TEST_SECRET_SHA1 ==
    << "G", "E", "Z", "D", "G", "N", "B", "V", "G", "Y", "3", "T", "Q", "O",
       "J", "Q", "G", "E", "Z", "D", "G", "N", "B", "V", "G", "Y", "3", "T",
       "Q", "O", "J", "Q" >>

\* ascii_to_base32("12345678901234567890123456789012")
TEST_SECRET_SHA256 ==
    << "G", "E", "Z", "D", "G", "N", "B", "V", "G", "Y", "3", "T", "Q", "O",
       "J", "Q", "G", "E", "Z", "D", "G", "N", "B", "V", "G", "Y", "3", "T",
       "Q", "O", "J", "Q", "G", "E", "Z", "D", "G", "N", "B", "V", "G", "Y",
       "3", "T", "Q", "O", "J", "Q", "G", "E", "Z", "A" >>

\* ascii_to_base32("12345678901234567890123456789012
\*                 34567890123456789012345678901234")
TEST_SECRET_SHA512 ==
    << "G", "E", "Z", "D", "G", "N", "B", "V", "G", "Y", "3", "T", "Q", "O",
       "J", "Q", "G", "E", "Z", "D", "G", "N", "B", "V", "G", "Y", "3", "T",
       "Q", "O", "J", "Q", "G", "E", "Z", "D", "G", "N", "B", "V", "G", "Y",
       "3", "T", "Q", "O", "J", "Q", "G", "E", "Z", "D", "G", "N", "B", "V",
       "G", "Y", "3", "T", "Q", "O", "J", "Q", "G", "E", "Z", "D", "G", "N",
       "B", "V", "G", "Y", "3", "T", "Q", "O", "J", "Q", "G", "E", "Z", "D",
       "G", "N", "B", "V", "G", "Y", "3", "T", "Q", "O", "J", "Q", "G", "E",
       "Z", "D", "G", "N", "A" >>

\* secret is the Base32 text that create_test_account stores
create_test_account(secret) ==
    [ name |-> S_test, secret |-> secret, issuer |-> default_issuer,
      algorithm |-> default_algorithm, digits |-> 8, period |-> 30,
      epoch |-> default_epoch ]

test_vectors ==
    << [time |-> <<0, 0, 0, 0, 0, 0, 0, 59>>, expected_totp |-> 94287082,
        algorithm |-> S_SHA1, secret |-> TEST_SECRET_SHA1],
       [time |-> <<0, 0, 0, 0, 66, 58, 53, 197>>, expected_totp |-> 7081804,
        algorithm |-> S_SHA1, secret |-> TEST_SECRET_SHA1],
       [time |-> <<0, 0, 0, 0, 66, 58, 53, 199>>, expected_totp |-> 14050471,
        algorithm |-> S_SHA1, secret |-> TEST_SECRET_SHA1],
       [time |-> <<0, 0, 0, 0, 73, 150, 2, 210>>, expected_totp |-> 89005924,
        algorithm |-> S_SHA1, secret |-> TEST_SECRET_SHA1],
       [time |-> <<0, 0, 0, 0, 119, 53, 148, 0>>, expected_totp |-> 69279037,
        algorithm |-> S_SHA1, secret |-> TEST_SECRET_SHA1],
       [time |-> <<0, 0, 0, 4, 168, 23, 200, 0>>, expected_totp |-> 65353130,
        algorithm |-> S_SHA1, secret |-> TEST_SECRET_SHA1],
       [time |-> <<0, 0, 0, 0, 0, 0, 0, 59>>, expected_totp |-> 46119246,
        algorithm |-> S_SHA256, secret |-> TEST_SECRET_SHA256],
       [time |-> <<0, 0, 0, 0, 66, 58, 53, 197>>, expected_totp |-> 68084774,
        algorithm |-> S_SHA256, secret |-> TEST_SECRET_SHA256],
       [time |-> <<0, 0, 0, 0, 66, 58, 53, 199>>, expected_totp |-> 67062674,
        algorithm |-> S_SHA256, secret |-> TEST_SECRET_SHA256],
       [time |-> <<0, 0, 0, 0, 73, 150, 2, 210>>, expected_totp |-> 91819424,
        algorithm |-> S_SHA256, secret |-> TEST_SECRET_SHA256],
       [time |-> <<0, 0, 0, 0, 119, 53, 148, 0>>, expected_totp |-> 90698825,
        algorithm |-> S_SHA256, secret |-> TEST_SECRET_SHA256],
       [time |-> <<0, 0, 0, 4, 168, 23, 200, 0>>, expected_totp |-> 77737706,
        algorithm |-> S_SHA256, secret |-> TEST_SECRET_SHA256],
       [time |-> <<0, 0, 0, 0, 0, 0, 0, 59>>, expected_totp |-> 90693936,
        algorithm |-> S_SHA512, secret |-> TEST_SECRET_SHA512],
       [time |-> <<0, 0, 0, 0, 66, 58, 53, 197>>, expected_totp |-> 25091201,
        algorithm |-> S_SHA512, secret |-> TEST_SECRET_SHA512],
       [time |-> <<0, 0, 0, 0, 66, 58, 53, 199>>, expected_totp |-> 99943326,
        algorithm |-> S_SHA512, secret |-> TEST_SECRET_SHA512],
       [time |-> <<0, 0, 0, 0, 73, 150, 2, 210>>, expected_totp |-> 93441116,
        algorithm |-> S_SHA512, secret |-> TEST_SECRET_SHA512],
       [time |-> <<0, 0, 0, 0, 119, 53, 148, 0>>, expected_totp |-> 38618901,
        algorithm |-> S_SHA512, secret |-> TEST_SECRET_SHA512],
       [time |-> <<0, 0, 0, 4, 168, 23, 200, 0>>, expected_totp |-> 47863826,
        algorithm |-> S_SHA512, secret |-> TEST_SECRET_SHA512] >>

(***************************************************************************)
(* Text: a String is the sequence of its bytes, each byte one character of *)
(* the model                                                               *)
(***************************************************************************)
\* the character that stands for each byte 0 .. 255: the ASCII character
\* where it is printable (the grave accent apart), a token otherwise
ByteChars ==
    <<
       "x00", "x01", "x02", "x03", "x04", "x05", "x06", "x07", "x08", "\t", "\n", "x0B", "x0C", "\r", "x0E", "x0F",
       "x10", "x11", "x12", "x13", "x14", "x15", "x16", "x17", "x18", "x19", "x1A", "x1B", "x1C", "x1D", "x1E", "x1F",
       " ", "!", "\"", "#", "$", "%", "&", "'", "(", ")", "*", "+", ",", "-", ".", "/",
       "0", "1", "2", "3", "4", "5", "6", "7", "8", "9", ":", ";", "<", "=", ">", "?",
       "@", "A", "B", "C", "D", "E", "F", "G", "H", "I", "J", "K", "L", "M", "N", "O",
       "P", "Q", "R", "S", "T", "U", "V", "W", "X", "Y", "Z", "[", "\\", "]", "^", "_",
       "x60", "a", "b", "c", "d", "e", "f", "g", "h", "i", "j", "k", "l", "m", "n", "o",
       "p", "q", "r", "s", "t", "u", "v", "w", "x", "y", "z", "{", "|", "}", "~", "x7F",
       "x80", "x81", "x82", "x83", "x84", "x85", "x86", "x87", "x88", "x89", "x8A", "x8B", "x8C", "x8D", "x8E", "x8F",
       "x90", "x91", "x92", "x93", "x94", "x95", "x96", "x97", "x98", "x99", "x9A", "x9B", "x9C", "x9D", "x9E", "x9F",
       "xA0", "xA1", "xA2", "xA3", "xA4", "xA5", "xA6", "xA7", "xA8", "xA9", "xAA", "xAB", "xAC", "xAD", "xAE", "xAF",
       "xB0", "xB1", "xB2", "xB3", "xB4", "xB5", "xB6", "xB7", "xB8", "xB9", "xBA", "xBB", "xBC", "xBD", "xBE", "xBF",
       "xC0", "xC1", "xC2", "xC3", "xC4", "xC5", "xC6", "xC7", "xC8", "xC9", "xCA", "xCB", "xCC", "xCD", "xCE", "xCF",
       "xD0", "xD1", "xD2", "xD3", "xD4", "xD5", "xD6", "xD7", "xD8", "xD9", "xDA", "xDB", "xDC", "xDD", "xDE", "xDF",
       "xE0", "xE1", "xE2", "xE3", "xE4", "xE5", "xE6", "xE7", "xE8", "xE9", "xEA", "xEB", "xEC", "xED", "xEE", "xEF",
       "xF0", "xF1", "xF2", "xF3", "xF4", "xF5", "xF6", "xF7", "xF8", "xF9", "xFA", "xFB", "xFC", "xFD", "xFE", "xFF"
    >>

\* the byte of a character
Ord(c) == CHOOSE b \in 0..255 : ByteChars[b + 1] = c

\* str::starts_with
starts_with(s, prefix) ==
    /\ Len(s) >= Len(prefix)
    /\ SubSeq(s, 1, Len(prefix)) = prefix

\* the indices at which a character occurs
Occurrences(s, c) == {i \in 1..Len(s) : s[i] = c}

\* str::find of a character: the index of its first occurrence, 0 for None
find(s, c) ==
    LET at == Occurrences(s, c)
    IN  IF at = {} THEN 0 ELSE CHOOSE i \in at : \A j \in at : i <= j

\* str::rfind of a character: the index of its last occurrence, 0 for None
rfind(s, c) ==
    LET at == Occurrences(s, c)
    IN  IF at = {} THEN 0 ELSE CHOOSE i \in at : \A j \in at : i >= j

\* char::is_whitespace on the characters of the model
is_whitespace(c) == c \in {" ", "\t", "\n", "\r", "x0B", "x0C"}

RECURSIVE trim_start(_)
trim_start(s) ==
    IF s = <<>> THEN <<>>
    ELSE IF is_whitespace(Head(s)) THEN trim_start(Tail(s))
    ELSE s

RECURSIVE trim_end(_)
trim_end(s) ==
    IF s = <<>> THEN <<>>
    ELSE IF is_whitespace(s[Len(s)]) THEN trim_end(SubSeq(s, 1, Len(s) - 1))
    ELSE s

\* str::trim
trim(s) == trim_end(trim_start(s))

\* the value of a hexadecimal digit, -1 for any other character
HexDigits == <<"0", "1", "2", "3", "4", "5", "6", "7", "8", "9", "A", "B", "C", "D", "E", "F">>
HexDigitsLower == <<"0", "1", "2", "3", "4", "5", "6", "7", "8", "9", "a", "b", "c", "d", "e", "f">>

HexValue(c) ==
    IF \E i \in 1..16 : HexDigits[i] = c
    THEN (CHOOSE i \in 1..16 : HexDigits[i] = c) - 1
    ELSE IF \E i \in 1..16 : HexDigitsLower[i] = c
    THEN (CHOOSE i \in 1..16 : HexDigitsLower[i] = c) - 1
    ELSE -1

\* percent_decode: every %XY with two hexadecimal digits becomes the byte
\* 16 X + Y, any other character stays; plus is "+" where a plus sign
\* stands for a space (form_urlencoded), and a character that no text
\* holds where it does not (urlencoding)
\* (an escape cannot start inside another one, whose two digits are not
\* '%'; the characters an escape has used up are marked "" and dropped)
IsEscape(s, i) ==
    /\ i >= 1
    /\ i + 2 <= Len(s)
    /\ s[i] = "%"
    /\ HexValue(s[i + 1]) >= 0
    /\ HexValue(s[i + 2]) >= 0

Unescaped(s, plus, i) ==
    IF IsEscape(s, i) THEN ByteChars[16 * HexValue(s[i + 1]) + HexValue(s[i + 2]) + 1]
    ELSE IF IsEscape(s, i - 1) \/ IsEscape(s, i - 2) THEN ""
    ELSE IF s[i] = plus THEN " "
    ELSE s[i]

IsCharacter(c) == c # ""

percent_decode(s, plus) ==
    SelectSeq([i \in 1..Len(s) |-> Unescaped(s, plus, i)], IsCharacter)

\* a byte 0x80 .. 0xBF, which continues a UTF-8 sequence
IsContinuation(s, i, lo, hi) == i <= Len(s) /\ Ord(s[i]) >= lo /\ Ord(s[i]) <= hi

\* the length of the well-formed UTF-8 sequence that starts s, 0 when s
\* does not start with one (core::str::from_utf8)
Utf8SequenceLength(s) ==
    LET b == Ord(s[1])
    IN  IF b < 128 THEN 1
        ELSE IF b >= 194 /\ b <= 223
        THEN IF IsContinuation(s, 2, 128, 191) THEN 2 ELSE 0
        ELSE IF b >= 224 /\ b <= 239
        THEN IF /\ IsContinuation(s, 2, IF b = 224 THEN 160 ELSE 128,
                                        IF b = 237 THEN 159 ELSE 191)
                /\ IsContinuation(s, 3, 128, 191)
             THEN 3 ELSE 0
        ELSE IF b >= 240 /\ b <= 244
        THEN IF /\ IsContinuation(s, 2, IF b = 240 THEN 144 ELSE 128,
                                        IF b = 244 THEN 143 ELSE 191)
                /\ IsContinuation(s, 3, 128, 191)
                /\ IsContinuation(s, 4, 128, 191)
             THEN 4 ELSE 0
        ELSE 0

\* the byte at i is a continuation byte of a well-formed sequence that
\* starts at most three bytes before it
InsideSequence(s, i) ==
    \E k \in 1..3 :
        /\ i - k >= 1
        /\ Ord(s[i - k]) >= 192
        /\ Utf8SequenceLength(SubSeq(s, i - k, Len(s))) > k

\* the byte at i starts a well-formed sequence or lies inside one
WellFormedAt(s, i) ==
    IF Ord(s[i]) >= 128 /\ Ord(s[i]) <= 191 THEN InsideSequence(s, i)
    ELSE Utf8SequenceLength(SubSeq(s, i, Len(s))) > 0

\* String::from_utf8(..).is_ok()
IsUtf8(s) == \A i \in 1..Len(s) : WellFormedAt(s, i)

\* urlencoding::decode(..).ok(): the percent-decoded text, None when the
\* decoded bytes are not UTF-8; a plus sign stays a plus sign
urlencoding_decode(s) ==
    LET bytes == percent_decode(s, "")
    IN  IF IsUtf8(bytes) THEN Some(bytes) ELSE None

\* the bytes of a sequence that cannot start a UTF-8 sequence and are
\* replaced together by one U+FFFD: the longest prefix of s that starts a
\* well-formed sequence without completing it, one byte at least
InvalidPrefixLength(s) ==
    LET b == Ord(s[1])
    IN  IF b >= 224 /\ b <= 239
        THEN IF IsContinuation(s, 2, IF b = 224 THEN 160 ELSE 128,
                                     IF b = 237 THEN 159 ELSE 191)
             THEN 2 ELSE 1
        ELSE IF b >= 240 /\ b <= 244
        THEN IF IsContinuation(s, 2, IF b = 240 THEN 144 ELSE 128,
                                     IF b = 244 THEN 143 ELSE 191)
             THEN IF IsContinuation(s, 3, 128, 191) THEN 3 ELSE 2
             ELSE 1
        ELSE 1

\* String::from_utf8_lossy: what is not UTF-8 becomes U+FFFD (EF BF BD)
RECURSIVE from_utf8_lossy(_)
from_utf8_lossy(s) ==
    LET bad == {i \in 1..Len(s) : ~WellFormedAt(s, i)}
        first == CHOOSE i \in bad : \A j \in bad : i <= j
        rest == SubSeq(s, first, Len(s))
    IN  IF bad = {} THEN s
        ELSE SubSeq(s, 1, first - 1) \o <<"xEF", "xBF", "xBD">>
                 \o from_utf8_lossy(SubSeq(rest, InvalidPrefixLength(rest) + 1, Len(rest)))

\* the text as it is written
verbatim(s) == s

\* form_urlencoded's decode: '+' is a space, then percent-decoded, lossily
form_urlencoded_decode(s) == from_utf8_lossy(percent_decode(s, "+"))

\* the pieces of s between the occurrences of sep
RECURSIVE split(_, _)
split(s, sep) ==
    LET i == find(s, sep)
    IN  IF i = 0 THEN <<s>>
        ELSE <<SubSeq(s, 1, i - 1)>> \o split(SubSeq(s, i + 1, Len(s)), sep)

\* one name=value piece of a query, cut at its first '='
NameValue(piece) ==
    LET i == find(piece, "=")
    IN  IF i = 0 THEN <<form_urlencoded_decode(piece), <<>>>>
        ELSE << form_urlencoded_decode(SubSeq(piece, 1, i - 1)),
                form_urlencoded_decode(SubSeq(piece, i + 1, Len(piece))) >>

RECURSIVE NameValues(_)
NameValues(pieces) ==
    IF pieces = <<>> THEN <<>>
    ELSE IF Head(pieces) = <<>> THEN NameValues(Tail(pieces))
    ELSE <<NameValue(Head(pieces))>> \o NameValues(Tail(pieces))

\* Url::query_pairs: form_urlencoded::parse of the query, none without one
query_pairs(parsed) ==
    IF parsed.query.some THEN NameValues(split(parsed.query.bytes, "&")) ELSE <<>>

\* HashMap::get after collect(): the value of the last pair of that name
RECURSIVE HashMapGet(_, _)
HashMapGet(pairs, key) ==
    IF pairs = <<>> THEN None
    ELSE IF pairs[Len(pairs)][1] = key THEN Some(pairs[Len(pairs)][2])
    ELSE HashMapGet(SubSeq(pairs, 1, Len(pairs) - 1), key)

Letters ==
    { "a", "b", "c", "d", "e", "f", "g", "h", "i", "j", "k", "l", "m",
      "n", "o", "p", "q", "r", "s", "t", "u", "v", "w", "x", "y", "z",
      "A", "B", "C", "D", "E", "F", "G", "H", "I", "J", "K", "L", "M",
      "N", "O", "P", "Q", "R", "S", "T", "U", "V", "W", "X", "Y", "Z" }

Digits == {"0", "1", "2", "3", "4", "5", "6", "7", "8", "9"}

\* the length of the scheme that starts s, 0 when s starts with none: a
\* letter, then letters, digits, '+', '-' and '.', up to a ':'
RECURSIVE SchemeEnd(_, _)
SchemeEnd(s, i) ==
    IF i > Len(s) THEN 0
    ELSE IF s[i] = ":" THEN i - 1
    ELSE IF s[i] \in Letters \cup Digits \cup {"+", "-", "."} THEN SchemeEnd(s, i + 1)
    ELSE 0

SchemeLength(s) == IF s # <<>> /\ s[1] \in Letters THEN SchemeEnd(s, 2) ELSE 0

\* the input without its leading and trailing C0 controls and spaces
RECURSIVE TrimC0Start(_)
TrimC0Start(s) ==
    IF s = <<>> THEN <<>>
    ELSE IF Ord(Head(s)) <= 32 THEN TrimC0Start(Tail(s))
    ELSE s

RECURSIVE TrimC0End(_)
TrimC0End(s) ==
    IF s = <<>> THEN <<>>
    ELSE IF Ord(s[Len(s)]) <= 32 THEN TrimC0End(SubSeq(s, 1, Len(s) - 1))
    ELSE s

\* the input without its tabs and newlines
NoTabNewline(c) == c \notin {"\t", "\n", "\r"}

RemoveTabNewline(s) == SelectSeq(s, NoTabNewline)

\* the end of the part of s that stops before the first of the characters
FirstOf(s, cs) ==
    IF \E i \in 1..Len(s) : s[i] \in cs
    THEN (CHOOSE i \in 1..Len(s) : s[i] \in cs /\ \A j \in 1..(i - 1) : s[j] \notin cs) - 1
    ELSE Len(s)

\* a port is decimal and at most 65535
RECURSIVE PortValue(_, _)
PortValue(s, acc) ==
    IF s = <<>> THEN acc
    ELSE IF Head(s) \notin Digits \/ acc > 65535 THEN 65536
    ELSE PortValue(Tail(s), 10 * acc + HexValue(Head(s)))

SpecialSchemes ==
    { <<"h", "t", "t", "p">>, <<"h", "t", "t", "p", "s">>, <<"w", "s">>,
      <<"w", "s", "s">>, <<"f", "t", "p">> }

ForbiddenHostCharacters == {" ", "#", "/", "<", ">", "?", "@", "[", "\\", "]", "^", "|"}

\* the authority user:password@host:port between "//" and the path is
\* well-formed: the port is a number, the host holds no forbidden
\* character, and it is not empty under a special scheme (hosts that are
\* plain names; IPv6 literals and IDNA are left out)
AuthorityOk(scheme, authority) ==
    LET at == rfind(authority, "@")
        hostport == SubSeq(authority, at + 1, Len(authority))
        colon == find(hostport, ":")
        host == IF colon = 0 THEN hostport ELSE SubSeq(hostport, 1, colon - 1)
        port == IF colon = 0 THEN <<>> ELSE SubSeq(hostport, colon + 1, Len(hostport))
    IN  /\ PortValue(port, 0) <= 65535
        /\ \A i \in 1..Len(host) : host[i] \notin ForbiddenHostCharacters
        /\ scheme \in SpecialSchemes => (host # <<>> /\ \A i \in 1..Len(host) : host[i] # "%")

\* a Url that failed to parse
UrlError == [ok |-> FALSE, scheme |-> <<>>, query |-> None]

\* Url::parse(uri).ok(), as far as the scheme, the authority and the query
\* go: the query is what stands between the first '?' and the first '#'
Url_parse(uri) ==
    LET input == RemoveTabNewline(TrimC0End(TrimC0Start(uri)))
        n == SchemeLength(input)
        rest == SubSeq(input, n + 2, Len(input))
        hash == find(rest, "#")
        nofragment == IF hash = 0 THEN rest ELSE SubSeq(rest, 1, hash - 1)
        mark == find(nofragment, "?")
        hier == IF mark = 0 THEN nofragment ELSE SubSeq(nofragment, 1, mark - 1)
        slashes == starts_with(hier, <<"/", "/">>)
        afterslashes == SubSeq(hier, 3, Len(hier))
        authority == SubSeq(afterslashes, 1, FirstOf(afterslashes, {"/"}))
    IN  IF n = 0 THEN UrlError
        ELSE IF slashes /\ ~AuthorityOk(SubSeq(input, 1, n), authority)
        THEN UrlError
        ELSE [ ok |-> TRUE,
               scheme |-> SubSeq(input, 1, n),
               query |-> IF mark = 0 THEN None
                         ELSE Some(SubSeq(nofragment, mark + 1, Len(nofragment))) ]

\* fn extract_account_from_otpauth(uri: &str) -> Option<String>
extract_account_from_otpauth(uri) ==
    IF ~starts_with(uri, S_otpauth_totp) THEN None
    ELSE LET path == SubSeq(uri, 16, Len(uri))
             query_start == find(path, "?")
         IN  IF query_start # 0
             THEN urlencoding_decode(SubSeq(path, 1, query_start - 1))
             ELSE urlencoding_decode(path)

\* fn extract_secret_from_otpauth(uri: &str) -> Option<String>
extract_secret_from_otpauth(uri) ==
    LET parsed == Url_parse(uri)
    IN  IF ~parsed.ok THEN None
        ELSE HashMapGet(query_pairs(parsed), S_secret)

(***************************************************************************)
(* The inputs explored                                                     *)
(***************************************************************************)
\* time offsets 0 .. MaxDelta are explored from every epoch
MaxDelta == 4

Deltas == 0..MaxDelta

S_JBSWY3DPEHPK3PXP == <<"J", "B", "S", "W", "Y", "3", "D", "P", "E", "H", "P", "K", "3", "P", "X", "P">>
S_invalid_base32 == <<"i", "n", "v", "a", "l", "i", "d", " ", "b", "a", "s", "e", "3", "2">>
S_SHA999 == <<"S", "H", "A", "9", "9", "9">>

\* secrets with a character outside the alphabet: the one of
\* test_invalid_secret, a digit that Base32 leaves out at the end and in
\* front of valid text, and punctuation
InvalidSecrets ==
    { S_invalid_base32,
      <<"J", "B", "S", "W", "Y", "3", "D", "1">>,
      <<"8", "A", "B">>,
      <<"J", "B", "-", "S", "W">> }

Secrets == {S_JBSWY3DPEHPK3PXP} \cup InvalidSecrets

Algorithms ==
    { S_SHA1, S_SHA256, S_SHA512, S_SHA999, <<"s", "h", "a", "1">>, <<"S", "H", "A">>, <<>> }

\* the epoch of test_custom_epoch (src/src/totp.rs:320), as a number
CustomEpoch == 1111111109

Epochs == {U64(0), U64(4), U64(CustomEpoch)}

\* every epoch plus every offset
Times == {BytesAdd(e, U64(d), 0) : e \in Epochs, d \in Deltas}

At(secs) == [secs |-> secs, nanos |-> 0]

RfcAccount(i) ==
    [create_test_account(test_vectors[i].secret) EXCEPT !.algorithm = test_vectors[i].algorithm]

\* test_rfc6238_vectors and test_custom_epoch
RfcInputs ==
    {[account |-> RfcAccount(i), duration |-> At(test_vectors[i].time)] : i \in 1..18}
    \cup {[account |-> [create_test_account(TEST_SECRET_SHA1) EXCEPT !.epoch = U64(CustomEpoch)],
           duration |-> At(U64(CustomEpoch + 30))]}

\* the clock against the epoch and the period
TimeInputs ==
    {[account |-> [Account_new(S_test, S_JBSWY3DPEHPK3PXP) EXCEPT !.period = p, !.epoch = e],
      duration |-> At(t)] : p \in {3, 30}, e \in Epochs, t \in Times}

\* the fields an account can hold, at one instant
FieldInputs ==
    {[account |-> [name |-> S_test, secret |-> s, issuer |-> default_issuer,
                   algorithm |-> a, digits |-> d, period |-> p, epoch |-> default_epoch],
      duration |-> [secs |-> U64(59), nanos |-> 999999999]] :
        s \in Secrets, a \in Algorithms, d \in {0, 6, 8, 10, 32}, p \in {0, 30}}

UriNames == {S_test, <<"a", "&", "b", "=", "c">>, <<"x", ":", "y", " ", "z", "?">>, <<>>}
UriIssuers == {S_hotpot, <<"A", "&", "B", " ", "%">>}

\* the text fields that generate_uri inserts
UriInputs ==
    {[account |-> [name |-> n, secret |-> s, issuer |-> i, algorithm |-> a,
                   digits |-> d, period |-> p, epoch |-> default_epoch],
      duration |-> At(U64(59))] :
        n \in UriNames, i \in UriIssuers, s \in {S_JBSWY3DPEHPK3PXP, S_invalid_base32},
        a \in {S_SHA1, S_SHA999}, d \in {6, 10}, p \in {30, 0}}

Inputs == RfcInputs \cup TimeInputs \cup FieldInputs \cup UriInputs

(***************************************************************************)
(* The state machine: one call of the library (src/src/lib.rs:3) on an     *)
(* account and a clock reading                                             *)
(***************************************************************************)
VARIABLES
    account,    \* the Account the caller holds
    duration,   \* the caller's clock reading, a Duration since UNIX_EPOCH
    pc,         \* "ready", or the name of the function that has returned
    result,     \* the outcome of generate_totp, NoResult before it
    uri,        \* the String returned by generate_uri, <<>> before it
    extracted,  \* what the extract_ functions have returned for uri
    storage,    \* the JSON document in the keyring entry, NoEntry without one
    returned,   \* the Result of the last operation on the store
    commands,   \* the hotpot processes that run a command, each with what
                \* it has read from the keyring and not written yet
    dashboard   \* the local variables of show(), the dashboard loop

vars ==
    <<account, duration, pc, result, uri, extracted, storage, returned, commands,
      dashboard>>

\* no extract_ function has been called
NotExtracted == [called |-> {}, name |-> None, secret |-> None]

\* Err(keyring::Error::NoEntry) of Entry::get_password
NoEntry == [entry |-> FALSE, accounts |-> <<>>]

\* no operation on the store has returned
NotReturned == [ok |-> TRUE, message |-> <<>>]

\* the hotpot processes that may run at the same time
Processes == {"first", "second"}

\* a process that runs no command
NoCommand ==
    [command |-> "none", name |-> <<>>, at |-> "exit", accounts |-> <<>>,
     returned |-> NotReturned]

\* no process runs, and the dashboard is not shown
NoProcess ==
    /\ commands = [p \in Processes |-> NoCommand]
    /\ dashboard = [mode |-> "none"]

\* a call of the library touches neither the keyring nor the URI decoder
LibraryOnly ==
    /\ extracted = NotExtracted
    /\ storage = NoEntry
    /\ returned = NotReturned
    /\ NoProcess

Init ==
    /\ \E in \in Inputs :
          /\ account = in.account
          /\ duration = in.duration
    /\ pc = "ready"
    /\ result = NoResult
    /\ uri = <<>>
    /\ LibraryOnly

Generate ==
    /\ pc = "ready"
    /\ result' \in generate_totp(account, duration)
    /\ pc' = "generate_totp"
    /\ UNCHANGED <<account, duration, uri, extracted, storage, returned, commands, dashboard>>

GenerateUri ==
    /\ pc = "ready"
    /\ uri' = generate_uri(account)
    /\ pc' = "generate_uri"
    /\ UNCHANGED <<account, duration, result, extracted, storage, returned, commands, dashboard>>

GenerateOtpauthUri ==
    /\ pc = "ready"
    /\ uri' = generate_otpauth_uri(account.name, account.secret)
    /\ pc' = "generate_otpauth_uri"
    /\ UNCHANGED <<account, duration, result, extracted, storage, returned, commands, dashboard>>

Next == Generate \/ GenerateUri \/ GenerateOtpauthUri

Spec == Init /\ [][Next]_vars

(***************************************************************************)
(* The URI decoder of the QR import (src/src/dashboard.rs:822-846) on the  *)
(* text of a QR code and on the text that generate_uri returns             *)
(***************************************************************************)
S_otpauth_hotp == <<"o", "t", "p", "a", "u", "t", "h", ":", "/", "/", "h", "o", "t", "p", "/">>
S_invalid_scheme == <<"i", "n", "v", "a", "l", "i", "d", ":", "/", "/">>
S_https_host == <<"h", "t", "t", "p", "s", ":", "/", "/", "e", "x", "a", "m", "p", "l", "e", ".", "c", "o", "m", "/">>
S_no_scheme == <<"t", "o", "t", "p", "/">>

\* what a scanned text starts with: the two prefixes of the tests
\* (src/src/dashboard.rs:1085-1109), another URL and no scheme at all
QrPrefixes == {S_otpauth_totp, S_otpauth_hotp, S_invalid_scheme, S_https_host, S_no_scheme}

S_GitHub == <<"G", "i", "t", "H", "u", "b">>
S_hotpot_test == <<"h", "o", "t", "p", "o", "t", ":", "t", "e", "s", "t">>
S_My_Account == <<"M", "y", "%", "2", "0", "A", "c", "c", "o", "u", "n", "t">>

\* the text up to the '?': the labels of the tests (dashboard.rs:1085,
\* 1092), labels with an issuer in front, an empty one, and one whose
\* escapes are not UTF-8
QrLabels ==
    { S_GitHub, S_hotpot_test, S_My_Account, <<>>, <<"a", ":", "b", ":", "c">>, <<"%", "F", "F">>,
      <<"u", "r", "i">> }

S_ABC123 == <<"A", "B", "C", "1", "2", "3">>

\* a query parameter: its name, its value as written, its value as read
Param(name, raw, value) == [name |-> name, raw |-> raw, value |-> value]

\* the parameters after the '?', none standing for no '?' at all
QrQueries ==
    { <<>>,
      <<Param(S_issuer, S_GitHub, S_GitHub)>>,
      <<Param(S_secret, S_ABC123, S_ABC123), Param(S_issuer, S_GitHub, S_GitHub)>>,
      <<Param(S_issuer, S_hotpot, S_hotpot),
        Param(S_secret, S_JBSWY3DPEHPK3PXP, S_JBSWY3DPEHPK3PXP)>>,
      <<Param(S_secret, <<"A", "%", "2", "0", "B", "+", "C">>, <<"A", " ", "B", " ", "C">>)>>,
      <<Param(S_secret, <<"X">>, <<"X">>), Param(S_issuer, S_hotpot, S_hotpot),
        Param(S_secret, <<"Y">>, <<"Y">>)>>,
      <<Param(S_secret, <<"A", "B", "C", "#", "x">>, <<"A", "B", "C">>)>> }

RECURSIVE RawParams(_)
RawParams(query) ==
    IF query = <<>> THEN <<>>
    ELSE <<Head(query).name \o <<"=">> \o Head(query).raw>> \o RawParams(Tail(query))

\* the text of a QR code made of these parts
QrContent(prefix, label, query) ==
    prefix \o label
        \o (IF query = <<>> THEN <<>> ELSE <<"?">> \o join(RawParams(query), <<"&">>))

QrContents == {QrContent(p, l, q) : p \in QrPrefixes, l \in QrLabels, q \in QrQueries}

\* the accounts whose URI is decoded again
RoundTripAccounts ==
    {[Account_new(n, s) EXCEPT !.issuer = i] :
        n \in UriNames, i \in UriIssuers, s \in {S_JBSWY3DPEHPK3PXP, S_invalid_base32}}

UriInit ==
    /\ \/ /\ pc = "ready"
          /\ account \in RoundTripAccounts
          /\ uri = <<>>
       \/ /\ pc = "scanned"
          /\ account = Account_new(<<>>, <<>>)
          /\ uri \in QrContents
    /\ duration = At(U64Zero)
    /\ result = NoResult
    /\ extracted = NotExtracted
    /\ storage = NoEntry
    /\ returned = NotReturned
    /\ NoProcess

\* extract_account_from_otpauth(&qr_data)
ExtractAccount ==
    /\ pc \in {"generate_uri", "scanned"}
    /\ "account" \notin extracted.called
    /\ extracted' = [extracted EXCEPT !.called = @ \cup {"account"},
                                      !.name = extract_account_from_otpauth(uri)]
    /\ UNCHANGED <<account, duration, pc, result, uri, storage, returned, commands,
                 dashboard>>

\* extract_secret_from_otpauth(&qr_data)
ExtractSecret ==
    /\ pc \in {"generate_uri", "scanned"}
    /\ "secret" \notin extracted.called
    /\ extracted' = [extracted EXCEPT !.called = @ \cup {"secret"},
                                      !.secret = extract_secret_from_otpauth(uri)]
    /\ UNCHANGED <<account, duration, pc, result, uri, storage, returned, commands,
                 dashboard>>

UriNext == GenerateUri \/ ExtractAccount \/ ExtractSecret

UriSpec == UriInit /\ [][UriNext]_vars

(***************************************************************************)
(* The account store: the keyring entry holds the JSON document            *)
(* {"accounts": [..]} (src/src/main.rs:104-107, 170-185)                   *)
(***************************************************************************)
\* the values of a JSON document: a string, a number, null
JStr(s) == [t |-> "string", s |-> s, n |-> 0]
JNum(n) == [t |-> "number", s |-> <<>>, n |-> n]
JNull == [t |-> "null", s |-> <<>>, n |-> 0]

\* #[derive(Serialize)] of Account: every field is written
Account_serialize(a) ==
    [ name |-> JStr(a.name),
      secret |-> JStr(a.secret),
      issuer |-> JStr(a.issuer),
      algorithm |-> JStr(a.algorithm),
      digits |-> JNum(a.digits),
      period |-> JNum(a.period),
      epoch |-> JNum(U64ToInt(a.epoch)) ]

\* a JSON value read as a String, a u32 or a u64: its type must fit
ValueOk(v, type) == v.t = type /\ (type = "number" => v.n >= 0)

ValueOf(v, type) == IF type = "string" THEN v.s ELSE v.n

\* a field without #[serde(default)]: it must be there
field_required(obj, field, type, default) ==
    IF field \notin DOMAIN obj THEN [ok |-> FALSE, v |-> default]
    ELSE IF ~ValueOk(obj[field], type) THEN [ok |-> FALSE, v |-> default]
    ELSE [ok |-> TRUE, v |-> ValueOf(obj[field], type)]

\* the default is not looked at
field_without_default(obj, field, type, default) ==
    field_required(obj, field, type, default)

\* a field with #[serde(default = "..")]: the default when it is not there
field_or_default(obj, field, type, default) ==
    IF field \notin DOMAIN obj THEN [ok |-> TRUE, v |-> default]
    ELSE field_required(obj, field, type, default)

\* #[derive(Deserialize)] of Account (src/src/totp.rs:10-25); fields that
\* Account does not have are skipped
Account_deserialize(obj) ==
    LET name == field_required(obj, "name", "string", <<>>)
        secret == field_required(obj, "secret", "string", <<>>)
        issuer == field_or_default(obj, "issuer", "string", default_issuer)
        algorithm == field_or_default(obj, "algorithm", "string", default_algorithm)
        digits == field_or_default(obj, "digits", "number", default_digits)
        period == field_or_default(obj, "period", "number", default_period)
        epoch == field_or_default(obj, "epoch", "number", U64ToInt(default_epoch))
    IN  [ ok |-> /\ name.ok /\ secret.ok /\ issuer.ok /\ algorithm.ok
                 /\ digits.ok /\ period.ok /\ epoch.ok,
          account |-> [ name |-> name.v, secret |-> secret.v, issuer |-> issuer.v,
                        algorithm |-> algorithm.v, digits |-> digits.v,
                        period |-> period.v, epoch |-> U64(epoch.v) ] ]

\* Result<(), AppError>
Done == [ok |-> TRUE, message |-> <<>>]
Failed(message) == [ok |-> FALSE, message |-> message]

\* the texts of the errors, without the text of the cause (src/src/lib.rs:26-36)
S_Keyring_error == <<"K", "e", "y", "r", "i", "n", "g", " ", "e", "r", "r", "o", "r", ":", " ">>
S_Serialization_error == <<"S", "e", "r", "i", "a", "l", "i", "z", "a", "t", "i", "o", "n", " ", "e", "r", "r", "o", "r", ":", " ">>
S_Account_ == <<"A", "c", "c", "o", "u", "n", "t", " ", "'">>
S_already_exists == <<"'", " ", "a", "l", "r", "e", "a", "d", "y", " ", "e", "x", "i", "s", "t", "s">>
S_not_found == <<"'", " ", "n", "o", "t", " ", "f", "o", "u", "n", "d">>

\* what the keyring does in one command: it works, get_password fails with
\* another error than NoEntry, or set_password fails
KeyringOutcomes == {"ok", "get fails", "set fails"}

\* an entry that cannot be read counts as Storage::default()
storage_or_default(entry, keyring) ==
    IF \/ ~entry.entry
       \/ "text" \in DOMAIN entry
       \/ \E i \in 1..Len(entry.accounts) : ~Account_deserialize(entry.accounts[i]).ok
    THEN [ok |-> TRUE, accounts |-> <<>>, message |-> <<>>]
    ELSE [ ok |-> TRUE,
           accounts |-> [i \in 1..Len(entry.accounts) |->
                            Account_deserialize(entry.accounts[i]).account],
           message |-> <<>> ]

\* fn get_storage() -> Result<Storage, AppError>; an entry that is not
\* the JSON text of an object with an array "accounts" has the field text
get_storage(entry, keyring) ==
    IF keyring = "get fails" THEN [ok |-> FALSE, accounts |-> <<>>, message |-> S_Keyring_error]
    ELSE IF ~entry.entry THEN [ok |-> TRUE, accounts |-> <<>>, message |-> <<>>]
    ELSE IF "text" \in DOMAIN entry
    THEN [ok |-> FALSE, accounts |-> <<>>, message |-> S_Serialization_error]
    ELSE IF \E i \in 1..Len(entry.accounts) : ~Account_deserialize(entry.accounts[i]).ok
    THEN [ok |-> FALSE, accounts |-> <<>>, message |-> S_Serialization_error]
    ELSE [ ok |-> TRUE,
           accounts |-> [i \in 1..Len(entry.accounts) |->
                            Account_deserialize(entry.accounts[i]).account],
           message |-> <<>> ]

\* fn save_storage(storage: &Storage) -> Result<(), AppError>: the entry
\* afterwards and the value returned
save_storage(entry, accounts, keyring) ==
    IF keyring = "set fails" THEN [storage |-> entry, returned |-> Failed(S_Keyring_error)]
    ELSE [ storage |-> [ entry |-> TRUE,
                         accounts |-> [i \in 1..Len(accounts) |->
                                          Account_serialize(accounts[i])] ],
           returned |-> Done ]

\* str::cmp is Less: the bytes are compared in order, a prefix is less
StrLess(a, b) ==
    \E i \in 1..(Len(b)) :
        /\ \A j \in 1..(i - 1) : j <= Len(a) /\ a[j] = b[j]
        /\ i > Len(a) \/ Ord(a[i]) < Ord(b[i])

\* x put behind the accounts of a sorted list that are not greater
RECURSIVE InsertByName(_, _)
InsertByName(sorted, x) ==
    IF sorted = <<>> THEN <<x>>
    ELSE IF StrLess(x.name, sorted[Len(sorted)].name)
    THEN InsertByName(SubSeq(sorted, 1, Len(sorted) - 1), x) \o <<sorted[Len(sorted)]>>
    ELSE sorted \o <<x>>

\* the list as it is
unsorted(accounts) == accounts

\* storage.accounts.sort_by(|a, b| a.name.cmp(&b.name)), a stable sort
RECURSIVE sort_by_name(_)
sort_by_name(accounts) ==
    IF accounts = <<>> THEN <<>>
    ELSE InsertByName(sort_by_name(SubSeq(accounts, 1, Len(accounts) - 1)),
                      accounts[Len(accounts)])

\* no account has the name
NameNeverTaken(accounts, name) == FALSE

\* storage.accounts.iter().any(|a| a.name == name)
NameTaken(accounts, name) == \E i \in 1..Len(accounts) : accounts[i].name = name

\* every account is dropped
clear(accounts, name) == <<>>

\* storage.accounts.retain(|a| a.name != name)
RECURSIVE retain(_, _)
retain(accounts, name) ==
    IF accounts = <<>> THEN <<>>
    ELSE (IF Head(accounts).name # name THEN <<Head(accounts)>> ELSE <<>>)
             \o retain(Tail(accounts), name)

\* fn save_account(name: &str, secret: &str) -> Result<(), AppError>
save_account(entry, name, secret, keyring) ==
    LET got == get_storage(entry, keyring)
    IN  IF ~got.ok THEN [storage |-> entry, returned |-> Failed(got.message)]
        ELSE IF NameTaken(got.accounts, name)
        THEN [storage |-> entry, returned |-> Failed(S_Account_ \o name \o S_already_exists)]
        ELSE save_storage(entry,
                          sort_by_name(Append(got.accounts, Account_new(name, secret))),
                          keyring)

\* fn delete_account(name: &str) -> Result<(), AppError>
delete_account(entry, name, keyring) ==
    LET got == get_storage(entry, keyring)
    IN  IF ~got.ok THEN [storage |-> entry, returned |-> Failed(got.message)]
        ELSE IF Len(retain(got.accounts, name)) = Len(got.accounts)
        THEN [storage |-> entry, returned |-> Failed(S_Account_ \o name \o S_not_found)]
        ELSE save_storage(entry, retain(got.accounts, name), keyring)

\* a find that takes the first account, whatever its name
first_account(entry, name, keyring) ==
    LET got == get_storage(entry, keyring)
    IN  IF ~got.ok THEN [returned |-> Failed(got.message), account |-> Account_new(<<>>, <<>>)]
        ELSE IF got.accounts = <<>>
        THEN [ returned |-> Failed(S_Account_ \o name \o S_not_found),
               account |-> Account_new(<<>>, <<>>) ]
        ELSE [returned |-> Done, account |-> got.accounts[1]]

\* a find that finds nothing
no_account(entry, name, keyring) ==
    [ returned |-> Failed(S_Account_ \o name \o S_not_found),
      account |-> Account_new(<<>>, <<>>) ]

\* fn get_account(name: &str) -> Result<Account, AppError>: the first
\* account of that name
get_account(entry, name, keyring) ==
    LET got == get_storage(entry, keyring)
        found == {i \in 1..Len(got.accounts) : got.accounts[i].name = name}
    IN  IF ~got.ok THEN [returned |-> Failed(got.message), account |-> Account_new(<<>>, <<>>)]
        ELSE IF found = {}
        THEN [ returned |-> Failed(S_Account_ \o name \o S_not_found),
               account |-> Account_new(<<>>, <<>>) ]
        ELSE [ returned |-> Done,
               account |-> got.accounts[CHOOSE i \in found : \A j \in found : i <= j] ]

\* the names and secrets typed on the command line and at the prompt of
\* `hotpot add` (src/src/main.rs:480-483)
S_b == <<"b">>
CliNames == {<<>>, S_b}
CliSecrets == {S_JBSWY3DPEHPK3PXP, <<>>}

\* the name typed in the Add mode of the dashboard when Enter is pressed
NameBuffers == {<<>>, <<" ">>, S_b}

\* the texts of the QR codes captured: the URI of the tests
\* (src/src/dashboard.rs:1085), one without a label, one without a secret
ScreenshotContents ==
    { QrContent(S_otpauth_totp, S_GitHub,
                <<Param(S_secret, S_ABC123, S_ABC123), Param(S_issuer, S_GitHub, S_GitHub)>>),
      QrContent(S_otpauth_totp, <<>>,
                <<Param(S_secret, S_JBSWY3DPEHPK3PXP, S_JBSWY3DPEHPK3PXP)>>),
      QrContent(S_otpauth_totp, S_GitHub, <<Param(S_issuer, S_GitHub, S_GitHub)>>) }

\* the line typed at "Enter account name (press Enter for default)"
TypedLines == {<<"\n">>, <<"b", "\n">>}

\* the names hotpot delete is called with
DeleteNames == CliNames

\* the instant of every code
StoreClock == [secs |-> U64(59), nanos |-> 0]

\* the library and the decoder have not been called
StoreIdle ==
    /\ account = Account_new(<<>>, <<>>)
    /\ duration = StoreClock
    /\ result = NoResult
    /\ uri = <<>>
    /\ extracted = NotExtracted

\* a command ends: what the library and the decoder were called with is
\* dropped
Forgotten ==
    /\ account' = Account_new(<<>>, <<>>)
    /\ result' = NoResult
    /\ uri' = <<>>
    /\ extracted' = NotExtracted
    /\ UNCHANGED <<duration, commands, dashboard>>

\* the keyring has no entry: Storage::default()
StoreInit ==
    /\ StoreIdle
    /\ pc = "ready"
    /\ storage = NoEntry
    /\ returned = NotReturned
    /\ NoProcess

\* hotpot add <name>, with the secret typed at the prompt
CliAdd ==
    \E name \in CliNames, secret \in CliSecrets, keyring \in KeyringOutcomes :
        LET saved == save_account(storage, name, secret, keyring)
        IN  /\ storage' = saved.storage
            /\ returned' = saved.returned
            /\ pc' = "Commands::Add"
            /\ Forgotten

\* Enter in the Add mode of the dashboard: handle_input, handle_add_mode
DashboardAdd ==
    \E name_buffer \in NameBuffers, secret \in {S_JBSWY3DPEHPK3PXP},
       keyring \in KeyringOutcomes :
        /\ trim(name_buffer) # <<>>
        /\ LET saved == save_account(storage, name_buffer, secret, keyring)
           IN  /\ storage' = saved.storage
               /\ returned' = saved.returned
        /\ pc' = "handle_add_mode"
        /\ Forgotten

\* the name handle_screenshot_add saves under: what is typed, or the
\* extracted name when the line is blank
final_name(extracted_name, input) ==
    IF trim(input) = <<>> THEN extracted_name ELSE trim(input)

\* 's' in the AddMethod mode: handle_screenshot_add on a decoded QR code
ScreenshotAdd ==
    \E qr_data \in ScreenshotContents, input \in TypedLines, keyring \in KeyringOutcomes :
        LET extracted_name == extract_account_from_otpauth(qr_data)
            secret == extract_secret_from_otpauth(qr_data)
            saved == save_account(storage, final_name(extracted_name.bytes, input),
                                  secret.bytes, keyring)
        IN  /\ IF extracted_name.some /\ secret.some
               THEN /\ storage' = saved.storage
                    /\ returned' = saved.returned
               ELSE UNCHANGED <<storage, returned>>
            /\ pc' = "handle_screenshot_add"
            /\ Forgotten

\* hotpot delete <name>
CliDelete ==
    \E name \in DeleteNames, keyring \in KeyringOutcomes :
        LET deleted == delete_account(storage, name, keyring)
        IN  /\ storage' = deleted.storage
            /\ returned' = deleted.returned
            /\ pc' = "Commands::Delete"
            /\ Forgotten

\* 'd' on the selected account of the dashboard, confirmed with y:
\* handle_delete_confirmation
DashboardDelete ==
    \E keyring \in KeyringOutcomes :
        LET listed == get_storage(storage, "ok")
        IN  /\ listed.ok
            /\ \E selected \in 1..Len(listed.accounts) :
                  LET deleted == delete_account(storage, listed.accounts[selected].name,
                                                keyring)
                  IN  /\ storage' = deleted.storage
                      /\ returned' = deleted.returned
            /\ pc' = "handle_delete_confirmation"
            /\ Forgotten

\* Enter on the selected account of the dashboard: copy_code_to_clipboard
\* calls generate_totp on it
CopyCode ==
    LET listed == get_storage(storage, "ok")
    IN  /\ listed.ok
        /\ \E selected \in 1..Len(listed.accounts) :
              /\ account' = listed.accounts[selected]
              /\ result' \in generate_totp(listed.accounts[selected], duration)
        /\ pc' = "copy_code_to_clipboard"
        /\ UNCHANGED <<duration, uri, extracted, storage, returned, commands, dashboard>>

StoreNext ==
    CliAdd \/ DashboardAdd \/ ScreenshotAdd \/ CliDelete \/ DashboardDelete \/ CopyCode

StoreSpec == StoreInit /\ [][StoreNext]_vars

(***************************************************************************)
(* Loading a keyring entry that was written elsewhere: an older version of *)
(* hotpot, or an edited document (src/tests/integration/file_storage.rs)   *)
(***************************************************************************)
S_github == <<"g", "i", "t", "h", "u", "b">>

\* a field the record does not have
Absent == [t |-> "absent", s |-> <<>>, n |-> 0]

\* the JSON object with the fields of fs that are not Absent
StoredRecord(fs) == [f \in {g \in DOMAIN fs : fs[g] # Absent} |-> fs[f]]

\* what the fields of the stored record are
StoredNames == {Absent, JStr(S_github)}
StoredSecrets == {Absent, JNull, JStr(S_JBSWY3DPEHPK3PXP)}
StoredIssuers == {Absent, JStr(S_GitHub)}
StoredAlgorithms == {Absent, JStr(S_SHA256)}
StoredDigits == {Absent, JNum(8)}
StoredPeriods == {Absent, JNum(60), JNum(0)}
StoredEpochs == {Absent, JNum(CustomEpoch)}

StoredRecords ==
    { StoredRecord(fs) :
        fs \in [ name : StoredNames, secret : StoredSecrets, issuer : StoredIssuers,
                 algorithm : StoredAlgorithms, digits : StoredDigits,
                 period : StoredPeriods, epoch : StoredEpochs ] }

\* the names hotpot code is called with
CodeNames == {S_github, S_b}

\* the keyring entry holds one record
LoadInit ==
    /\ StoreIdle
    /\ pc = "ready"
    /\ \E record \in StoredRecords : storage = [entry |-> TRUE, accounts |-> <<record>>]
    /\ returned = NotReturned
    /\ NoProcess

\* hotpot code <name>: get_account, then generate_totp on the account
CliCode ==
    \E name \in CodeNames :
        LET got == get_account(storage, name, "ok")
        IN  /\ returned' = got.returned
            /\ account' = got.account
            /\ IF got.returned.ok
               THEN result' \in generate_totp(got.account, duration)
               ELSE result' = NoResult
            /\ pc' = "Commands::Code"
            /\ UNCHANGED <<duration, uri, extracted, storage, commands, dashboard>>

LoadNext == CliCode \/ CopyCode

LoadSpec == LoadInit /\ [][LoadNext]_vars

(***************************************************************************)
(* The commands of hotpot, each a process of its own: what one does        *)
(* between two accesses to the keyring is local to it                      *)
(* (src/src/main.rs:476-522)                                               *)
(***************************************************************************)
\* the contents of the files of test_invalid_json_file
\* (src/tests/integration/cli_commands.rs:210) and
\* test_file_with_malformed_json (src/tests/integration/file_storage.rs:74)
S_invalid_json_content == <<"i", "n", "v", "a", "l", "i", "d", " ", "j", "s", "o", "n", " ", "c", "o", "n", "t", "e", "n", "t">>
S_incomplete == <<"{", "\"", "g", "i", "t", "h", "u", "b", "\"", ":", " ", "{", "\"", "s", "e", "c", "r", "e", "t", "\"", ":", " ", "\"", "i", "n", "c", "o", "m", "p", "l", "e", "t", "e">>

\* a keyring entry that serde_json does not read as a Storage: a text that
\* is not JSON, a truncated one, an account without secret
InvalidDocuments ==
    { [entry |-> TRUE, accounts |-> <<>>, text |-> S_invalid_json_content],
      [entry |-> TRUE, accounts |-> <<>>, text |-> S_incomplete],
      [entry |-> TRUE,
       accounts |-> <<[name |-> JStr(S_github), algorithm |-> JStr(S_SHA1),
                       digits |-> JNum(6), period |-> JNum(30), epoch |-> JNum(0)]>>] }

\* no entry, {"accounts": []}, and one account
ValidDocuments ==
    { NoEntry,
      [entry |-> TRUE, accounts |-> <<>>],
      [entry |-> TRUE,
       accounts |-> <<Account_serialize(Account_new(S_github, S_JBSWY3DPEHPK3PXP))>>] }

\* the names the commands are called with
CommandNames == {S_github, S_b}

CommandInit ==
    /\ StoreIdle
    /\ pc = "ready"
    /\ storage \in ValidDocuments \cup InvalidDocuments
    /\ returned = NotReturned
    /\ NoProcess

\* process p has returned from main with r
Exit(p, command, name, r) ==
    commands' = [commands EXCEPT ![p] =
                    [command |-> command, name |-> name, at |-> "exit",
                     accounts |-> <<>>, returned |-> r]]

\* process p is about to call save_storage on the accounts
BeforeSave(p, command, name, accounts) ==
    commands' = [commands EXCEPT ![p] =
                    [command |-> command, name |-> name, at |-> "save_storage",
                     accounts |-> accounts, returned |-> NotReturned]]

\* the step of a process leaves the variables of the library as they are
\* when no call is made
NoCall ==
    /\ account' = Account_new(<<>>, <<>>)
    /\ result' = NoResult
    /\ uri' = <<>>
    /\ UNCHANGED <<duration, pc, extracted, returned, dashboard>>

\* hotpot add <name>, up to the call of save_storage: the secret is read,
\* then save_account loads the storage, looks for the name, pushes and sorts
AddLoad(p) ==
    \E name \in CommandNames :
        LET got == get_storage(storage, "ok")
        IN  /\ commands[p].at = "exit"
            /\ IF ~got.ok
               THEN Exit(p, "add", name, Failed(got.message))
               ELSE IF NameTaken(got.accounts, name)
               THEN Exit(p, "add", name, Failed(S_Account_ \o name \o S_already_exists))
               ELSE BeforeSave(p, "add", name,
                               sort_by_name(Append(got.accounts,
                                                   Account_new(name, S_JBSWY3DPEHPK3PXP))))
            /\ UNCHANGED storage
            /\ NoCall

\* hotpot delete <name>, up to the call of save_storage
DeleteLoad(p) ==
    \E name \in CommandNames :
        LET got == get_storage(storage, "ok")
        IN  /\ commands[p].at = "exit"
            /\ IF ~got.ok
               THEN Exit(p, "delete", name, Failed(got.message))
               ELSE IF Len(retain(got.accounts, name)) = Len(got.accounts)
               THEN Exit(p, "delete", name, Failed(S_Account_ \o name \o S_not_found))
               ELSE BeforeSave(p, "delete", name, retain(got.accounts, name))
            /\ UNCHANGED storage
            /\ NoCall

\* save_storage(&storage) of save_account and delete_account, and the
\* return from main
Save(p) ==
    /\ commands[p].at = "save_storage"
    /\ storage' = save_storage(storage, commands[p].accounts, "ok").storage
    /\ Exit(p, commands[p].command, commands[p].name, Done)
    /\ NoCall

\* hotpot code <name>, up to the call of generate_totp
CodeLoad(p) ==
    \E name \in CommandNames :
        LET got == get_account(storage, name, "ok")
        IN  /\ commands[p].at = "exit"
            /\ IF ~got.returned.ok
               THEN Exit(p, "code", name, got.returned)
               ELSE commands' = [commands EXCEPT ![p] =
                                    [command |-> "code", name |-> name,
                                     at |-> "generate_totp",
                                     accounts |-> <<got.account>>,
                                     returned |-> NotReturned]]
            /\ UNCHANGED storage
            /\ NoCall

\* generate_totp(&account) of hotpot code, and the return from main
CodeGenerate(p) ==
    /\ commands[p].at = "generate_totp"
    /\ account' = commands[p].accounts[1]
    /\ result' \in generate_totp(commands[p].accounts[1], duration)
    /\ Exit(p, "code", commands[p].name, Done)
    /\ uri' = <<>>
    /\ UNCHANGED <<duration, pc, extracted, storage, returned, dashboard>>

\* hotpot list
List(p) ==
    LET got == get_storage(storage, "ok")
    IN  /\ commands[p].at = "exit"
        /\ Exit(p, "list", <<>>, IF got.ok THEN Done ELSE Failed(got.message))
        /\ UNCHANGED storage
        /\ NoCall

\* hotpot export-qr --name <name>: get_account, then export_qr_code on the
\* URI of the name and the secret
ExportQr(p) ==
    \E name \in CommandNames :
        LET got == get_account(storage, name, "ok")
        IN  /\ commands[p].at = "exit"
            /\ Exit(p, "export-qr", name, got.returned)
            /\ uri' = IF got.returned.ok
                      THEN generate_otpauth_uri(name, got.account.secret)
                      ELSE <<>>
            /\ account' = Account_new(<<>>, <<>>)
            /\ result' = NoResult
            /\ UNCHANGED <<duration, pc, extracted, storage, returned, dashboard>>

CommandNext ==
    \E p \in Processes :
        \/ AddLoad(p)
        \/ DeleteLoad(p)
        \/ Save(p)
        \/ CodeLoad(p)
        \/ CodeGenerate(p)
        \/ List(p)
        \/ ExportQr(p)

CommandSpec == CommandInit /\ [][CommandNext]_vars

(***************************************************************************)
(* The dashboard (src/src/dashboard.rs:253-707): show() draws a frame,     *)
(* reads one key with handle_input and acts on the InputResult             *)
(***************************************************************************)
\* the longest text typed into the query and into the name buffer
MaxText == 1

\* the heights size() reports: below the four lines of the header, one row
\* of accounts, two rows
Heights == {3, 5, 6}

\* the characters typed: the commands of the List and AddMethod modes, a
\* blank, and 'q'
ListChars == {"f", "F", "a", "d", "e", "m", "q"}
AddMethodChars == {"m", "M", "a", "q"}
TextChars == {"a", " ", "q"}

\* what is typed at "Enter the Base32 secret: ": a secret, a text that is
\* not Base32
S_1 == <<"1">>
PromptedSecrets == {S_JBSWY3DPEHPK3PXP, S_1}

\* the line typed at "Delete account '...'? [y/N] "
ConfirmLines == {<<"y", "\n">>, <<" ", "Y", " ", "\n">>, <<"n", "\n">>, <<"\n">>}

\* the keyring entry show() starts from: none, one account, two accounts,
\* a text that is not JSON
DashboardDocuments ==
    { NoEntry,
      [entry |-> TRUE,
       accounts |-> <<Account_serialize(Account_new(S_github, S_JBSWY3DPEHPK3PXP))>>],
      [entry |-> TRUE,
       accounts |-> <<Account_serialize(Account_new(S_b, S_JBSWY3DPEHPK3PXP)),
                      Account_serialize(Account_new(S_github, S_JBSWY3DPEHPK3PXP))>>],
      [entry |-> TRUE, accounts |-> <<>>, text |-> S_invalid_json_content] }

\* char::to_ascii_lowercase on the letters typed
to_ascii_lowercase(c) ==
    CASE c = "F" -> "f"
      [] c = "M" -> "m"
      [] c = "Y" -> "y"
      [] OTHER -> c

\* str::eq_ignore_ascii_case
eq_ignore_ascii_case(a, b) ==
    /\ Len(a) = Len(b)
    /\ \A i \in 1..Len(a) : to_ascii_lowercase(a[i]) = to_ascii_lowercase(b[i])

\* the characters of the pattern occur in the choice in this order
RECURSIVE InOrder(_, _)
InOrder(choice, pattern) ==
    IF pattern = <<>> THEN TRUE
    ELSE IF choice = <<>> THEN FALSE
    ELSE IF to_ascii_lowercase(Head(choice)) = Head(pattern)
    THEN InOrder(Tail(choice), Tail(pattern))
    ELSE InOrder(Tail(choice), pattern)

\* matcher.fuzzy_match(&account.name, query) is Some: SkimMatcherV2 is not
\* in src/, a match is the query as a subsequence of the name
fuzzy_match(choice, pattern) == InOrder(choice, pattern)

\* fn get_filtered_accounts: every account, or in the Search mode the ones
\* the query matches (their ranking by score is the matcher's)
get_filtered_accounts(accounts, mode, query) ==
    IF mode = "Search"
    THEN SelectSeq(accounts, LAMBDA a : fuzzy_match(a.name, query))
    ELSE accounts

\* (buffer.height - 4) as usize: the difference of two u16, which wraps
\* below 4 when overflow is not checked
max_display(height) == (height + 65536 - 4) % 65536

\* term_height as usize - 4: the eight bytes of the difference of two
\* usize, which wraps below 4 when overflow is not checked
usize_minus_4(term_height) ==
    IF term_height >= 4 THEN U64(term_height - 4)
    ELSE [i \in 1..8 |-> IF i < 8 THEN 255 ELSE 252 + term_height]

\* accounts.len().min(rows), rows in eight bytes
len_min(len, rows) ==
    IF \E i \in 1..4 : rows[i] # 0 THEN len
    ELSE IF len < U64ToInt(rows) THEN len
    ELSE U64ToInt(rows)

\* Base32 decoding of the secrets met, computed once
SecretDecodes == [secret \in PromptedSecrets |-> decode(secret).some]

\* generate_totp(account, now) in render_account_line: the outcome up to
\* the digest, which decides it for the digits of Account::new
code_of(a) ==
    IF ~SecretDecodes[a.secret] THEN "Err"
    ELSE IF a.period = 0 THEN "Panic"
    ELSE IF AlgorithmArm(a.algorithm) = "_" THEN "Err"
    ELSE "Ok"

\* filtered_accounts.iter().take(max_display)
take(accounts, n) ==
    SubSeq(accounts, 1, IF n < Len(accounts) THEN n ELSE Len(accounts))

\* show() has not been called
DashboardInit ==
    /\ StoreIdle
    /\ pc = "ready"
    /\ storage \in DashboardDocuments
    /\ returned = NotReturned
    /\ NoProcess

\* the dashboard calls neither the library nor the decoder through these
\* variables, and no command runs beside it
DashboardOnly == UNCHANGED <<account, duration, pc, result, uri, extracted, returned, commands>>

\* show() up to the loop (src/src/dashboard.rs:324-339): raw mode, the
\* cursor hidden, the List mode, and the storage, whose error is returned.
\* overflow_checks is the profile of the build.
Show ==
    \E overflow_checks \in BOOLEAN, term_height \in Heights :
        LET got == get_storage(storage, "ok")
        IN  /\ dashboard.mode = "none"
            /\ dashboard' =
                  [ mode |-> "List", query |-> <<>>, selected |-> 0,
                    name_buffer |-> <<>>, copied |-> {},
                    storage |-> got.accounts, height |-> term_height,
                    raw_mode |-> TRUE, cursor |-> FALSE,
                    at |-> IF got.ok THEN "loop" ELSE "returned Err",
                    overflow_checks |-> overflow_checks ]
            /\ UNCHANGED storage
            /\ DashboardOnly

\* the loop of show() is running
Running == dashboard.mode # "none" /\ dashboard.at = "loop"

\* the accounts handle_input is given
Listed(d) == get_filtered_accounts(d.storage, d.mode, d.query)

\* the outcome of the frame (lines 343-368) at the height size() reports:
\* the subtraction of line 347 panics in a build that checks overflow, and
\* the first row whose code is an error ends show() with it
frame(d, height) ==
    LET rows == take(Listed(d), max_display(height))
        failed == {i \in 1..Len(rows) : code_of(rows[i]) # "Ok"}
    IN  IF height < 4 /\ d.overflow_checks THEN "Panic"
        ELSE IF failed = {} THEN "Ok"
        ELSE code_of(rows[CHOOSE i \in failed : \A j \in failed : i <= j])

\* the rows of accounts the frame shows: render_account_line is called with
\* the row 4 + idx, and write_line_with_style (lines 72-78) writes a line
\* only if row < self.height
displayed_rows(d, height) ==
    LET rows == take(Listed(d), max_display(height))
    IN  SelectSeq([i \in 1..Len(rows) |-> [idx |-> i - 1, account |-> rows[i]]],
                  LAMBDA line : 4 + line.idx < height)

\* the dashboard when the frame is drawn: the buffer has the new height,
\* and cleanup_old_entries has dropped the entries of two seconds or more
Drawn(height, elapsed) ==
    [dashboard EXCEPT !.height = height, !.copied = IF elapsed THEN {} ELSE @]

\* InputResult::Exit (lines 384-388, 401-403): the cursor is shown and raw
\* mode left
exit(d) == [d EXCEPT !.at = "returned Ok", !.cursor = TRUE, !.raw_mode = FALSE]

\* InputResult::RefreshStorage and RefreshStorageAndResetMode (lines
\* 389-397): the storage is read again, and its error returned
refresh(d, entry, reset) ==
    LET got == get_storage(entry, "ok")
    IN  IF ~got.ok THEN [d EXCEPT !.at = "returned Err"]
        ELSE IF reset THEN [d EXCEPT !.storage = got.accounts, !.mode = "List", !.query = <<>>]
        ELSE [d EXCEPT !.storage = got.accounts]

\* a frame that is not drawn to the end: show() panics or returns the error
\* before a key is read
FrameFails ==
    \E term_height \in Heights, elapsed \in BOOLEAN :
        LET d == Drawn(term_height, elapsed)
        IN  /\ Running
            /\ frame(d, term_height) # "Ok"
            /\ dashboard' = [d EXCEPT !.at = IF frame(d, term_height) = "Panic"
                                               THEN "panicked" ELSE "returned Err"]
            /\ UNCHANGED storage
            /\ DashboardOnly

\* the frame is drawn and handle_input is called
FrameDrawn(term_height, elapsed) ==
    /\ Running
    /\ frame(Drawn(term_height, elapsed), term_height) = "Ok"

\* poll() times out, or the event is none of the keys below: Continue
NoKey ==
    \E term_height \in Heights, elapsed \in BOOLEAN :
        /\ FrameDrawn(term_height, elapsed)
        /\ dashboard' = Drawn(term_height, elapsed)
        /\ UNCHANGED storage
        /\ DashboardOnly

\* Ctrl+C (lines 425-435)
KeyCtrlC ==
    \E term_height \in Heights, elapsed \in BOOLEAN :
        /\ FrameDrawn(term_height, elapsed)
        /\ dashboard' = exit(Drawn(term_height, elapsed))
        /\ UNCHANGED storage
        /\ DashboardOnly

\* Esc that ends the dashboard in every mode
esc_in_any_mode(d) == exit(d)

\* Esc (lines 436-441)
esc(d) == IF d.mode = "List" THEN exit(d) ELSE [d EXCEPT !.mode = "List", !.query = <<>>]

KeyEsc ==
    \E term_height \in Heights, elapsed \in BOOLEAN :
        /\ FrameDrawn(term_height, elapsed)
        /\ dashboard' = esc(Drawn(term_height, elapsed))
        /\ UNCHANGED storage
        /\ DashboardOnly

\* fn handle_list_mode_char, for the characters that neither delete nor
\* export
handle_list_mode_char(c, d) ==
    CASE to_ascii_lowercase(c) = "f" ->
             [d EXCEPT !.mode = "Search", !.query = <<>>, !.selected = 0]
      [] to_ascii_lowercase(c) = "a" -> [d EXCEPT !.mode = "AddMethod"]
      [] OTHER -> d

\* fn handle_search_mode_char
handle_search_mode_char(c, d) == [d EXCEPT !.query = Append(@, c), !.selected = 0]

\* fn handle_add_mode_char
handle_add_mode_char(c, d) == [d EXCEPT !.name_buffer = Append(@, c)]

\* 'm' that keeps what was typed before
keep_name_buffer(c, d) ==
    IF to_ascii_lowercase(c) = "m" THEN [d EXCEPT !.mode = "Add"] ELSE d

\* fn handle_add_method_mode_char, in a build for a target other than
\* macOS, where 's' is no command
handle_add_method_mode_char(c, d) ==
    IF to_ascii_lowercase(c) = "m" THEN [d EXCEPT !.mode = "Add", !.name_buffer = <<>>]
    ELSE d

\* fn handle_char_input
handle_char_input(c, d) ==
    CASE d.mode = "List" -> handle_list_mode_char(c, d)
      [] d.mode = "Search" -> handle_search_mode_char(c, d)
      [] d.mode = "Add" -> handle_add_mode_char(c, d)
      [] d.mode = "AddMethod" -> handle_add_method_mode_char(c, d)

\* Event::Key with KeyCode::Char(c) in handle_input (lines 430-447): the
\* arm of 'q', whatever the modifiers, comes before the arm of the other
\* characters
key_char(c, d) == IF c = "q" THEN exit(d) ELSE handle_char_input(c, d)

\* the characters typed in a mode
Typed(mode) ==
    CASE mode = "List" -> ListChars \ {"d", "e"}
      [] mode = "AddMethod" -> AddMethodChars
      [] OTHER -> TextChars

\* the text of the mode has room for the character
Room(c) ==
    \/ c = "q"
    \/ dashboard.mode \in {"List", "AddMethod"}
    \/ dashboard.mode = "Search" /\ Len(dashboard.query) < MaxText
    \/ dashboard.mode = "Add" /\ Len(dashboard.name_buffer) < MaxText

\* a character key other than 'd' and 'e' of the List mode
KeyChar ==
    \E term_height \in Heights, elapsed \in BOOLEAN,
       c \in ListChars \cup AddMethodChars \cup TextChars :
        /\ FrameDrawn(term_height, elapsed)
        /\ c \in Typed(dashboard.mode)
        /\ Room(c)
        /\ dashboard' = key_char(c, Drawn(term_height, elapsed))
        /\ UNCHANGED storage
        /\ DashboardOnly

\* a delete that does not look at the answer
delete_unconfirmed(d, entry, a, confirm, keyring) ==
    LET deleted == delete_account(entry, a.name, keyring)
    IN  [d |-> refresh(d, deleted.storage, FALSE), storage |-> deleted.storage]

\* fn handle_delete_confirmation: the dashboard and the keyring entry
\* afterwards
handle_delete_confirmation(d, entry, a, confirm, keyring) ==
    LET deleted == delete_account(entry, a.name, keyring)
    IN  IF eq_ignore_ascii_case(trim(confirm), <<"y">>)
        THEN IF deleted.returned.ok
             THEN [d |-> refresh(d, deleted.storage, FALSE), storage |-> deleted.storage]
             ELSE [d |-> d, storage |-> deleted.storage]
        ELSE [d |-> d, storage |-> entry]

\* 'd' in the List mode (lines 538-544)
KeyDelete ==
    \E term_height \in Heights, elapsed \in BOOLEAN, confirm \in ConfirmLines,
       keyring \in {"ok"} :
        LET d == Drawn(term_height, elapsed)
            after == handle_delete_confirmation(d, storage, Listed(d)[d.selected + 1],
                                                confirm, keyring)
        IN  /\ FrameDrawn(term_height, elapsed)
            /\ dashboard.mode = "List"
            /\ IF d.selected < Len(Listed(d))
               THEN dashboard' = after.d /\ storage' = after.storage
               ELSE dashboard' = d /\ UNCHANGED storage
            /\ DashboardOnly

\* 'e' in the List mode (lines 545-551): handle_export_qr prints the QR
\* code of the selected account and waits for Enter
KeyExport ==
    \E term_height \in Heights, elapsed \in BOOLEAN :
        /\ FrameDrawn(term_height, elapsed)
        /\ dashboard.mode = "List"
        /\ dashboard' = Drawn(term_height, elapsed)
        /\ UNCHANGED storage
        /\ DashboardOnly

\* Backspace (lines 448-460)
backspace(d) ==
    CASE d.mode = "Search" ->
             [d EXCEPT !.query = SubSeq(@, 1, Len(@) - 1), !.selected = 0]
      [] d.mode = "Add" -> [d EXCEPT !.name_buffer = SubSeq(@, 1, Len(@) - 1)]
      [] OTHER -> d

KeyBackspace ==
    \E term_height \in Heights, elapsed \in BOOLEAN :
        /\ FrameDrawn(term_height, elapsed)
        /\ dashboard' = backspace(Drawn(term_height, elapsed))
        /\ UNCHANGED storage
        /\ DashboardOnly

\* Up (lines 461-467)
up(d) == IF d.selected > 0 THEN [d EXCEPT !.selected = @ - 1] ELSE d

KeyUp ==
    \E term_height \in Heights, elapsed \in BOOLEAN :
        /\ FrameDrawn(term_height, elapsed)
        /\ dashboard' = up(Drawn(term_height, elapsed))
        /\ UNCHANGED storage
        /\ DashboardOnly

\* Down (lines 468-476), reached below the height 4 only in a build that
\* does not check overflow
down(d) ==
    LET max_items == len_min(Len(Listed(d)), usize_minus_4(d.height))
    IN  IF d.selected + 1 < max_items THEN [d EXCEPT !.selected = @ + 1] ELSE d

KeyDown ==
    \E term_height \in Heights, elapsed \in BOOLEAN :
        /\ FrameDrawn(term_height, elapsed)
        /\ dashboard' = down(Drawn(term_height, elapsed))
        /\ UNCHANGED storage
        /\ DashboardOnly

\* what prompt_password returns
Prompted ==
    {[ok |-> TRUE, secret |-> s] : s \in PromptedSecrets}
        \cup {[ok |-> FALSE, secret |-> <<>>]}

\* fn handle_add_mode: the secret is asked for, the result of save_account
\* is dropped, and RefreshStorageAndResetMode is returned
handle_add_mode(d, entry, name, prompted, keyring) ==
    LET saved == save_account(entry, name, prompted.secret, keyring)
        after == IF prompted.ok THEN saved.storage ELSE entry
    IN  [d |-> refresh(d, after, TRUE), storage |-> after]

\* fn copy_code_to_clipboard: the account is marked when its code is made
\* and the clipboard is there
copy_code_to_clipboard(d, a, clipboard) ==
    IF code_of(a) = "Ok" /\ clipboard
    THEN [d EXCEPT !.copied = @ \cup {a.name}]
    ELSE d

\* Enter that saves whatever the buffer holds
enter_unchecked(d, entry, prompted, keyring, clipboard) ==
    IF d.mode = "Add" THEN handle_add_mode(d, entry, d.name_buffer, prompted, keyring)
    ELSE [d |-> d, storage |-> entry]

\* Enter (lines 477-498)
enter(d, entry, prompted, keyring, clipboard) ==
    IF d.mode = "Add"
    THEN IF trim(d.name_buffer) # <<>>
         THEN handle_add_mode(d, entry, d.name_buffer, prompted, keyring)
         ELSE [d |-> d, storage |-> entry]
    ELSE IF d.selected < Len(Listed(d)) /\ d.mode \in {"List", "Search"}
    THEN [ d |-> copy_code_to_clipboard(d, Listed(d)[d.selected + 1], clipboard),
           storage |-> entry ]
    ELSE [d |-> d, storage |-> entry]

\* the secret is asked for and the keyring written only in the Add mode,
\* the clipboard opened only in the other modes
KeyEnter ==
    \E term_height \in Heights, elapsed \in BOOLEAN,
       prompted \in (IF dashboard.mode = "Add" THEN Prompted
                     ELSE {[ok |-> FALSE, secret |-> <<>>]}),
       keyring \in (IF dashboard.mode = "Add" THEN {"ok", "set fails"} ELSE {"ok"}),
       clipboard \in (IF dashboard.mode = "Add" THEN {TRUE} ELSE BOOLEAN) :
        LET after == enter(Drawn(term_height, elapsed), storage, prompted, keyring,
                           clipboard)
        IN  /\ FrameDrawn(term_height, elapsed)
            /\ dashboard' = after.d
            /\ storage' = after.storage
            /\ DashboardOnly

DashboardNext ==
    \/ Show
    \/ FrameFails
    \/ NoKey
    \/ KeyChar
    \/ KeyCtrlC
    \/ KeyEsc
    \/ KeyDelete
    \/ KeyExport
    \/ KeyBackspace
    \/ KeyUp
    \/ KeyDown
    \/ KeyEnter

DashboardSpec == DashboardInit /\ [][DashboardNext]_vars

(***************************************************************************)
(* CopiedState (src/src/dashboard.rs:261-294): the accounts copied and the *)
(* SystemTime of the copy, against a system clock that can be set          *)
(***************************************************************************)
\* the readings of the clock, in steps of half a second
MaxClock == 6

ClockReadings == {500 * i : i \in 0..MaxClock}

\* Duration::from_secs(2), in milliseconds
RecentMillis == 2000

\* the names of test_copied_state_tracking
S_Google == <<"G", "o", "o", "g", "l", "e">>
CopiedNames == {S_GitHub, S_Google}

\* no call of is_recently_copied yet
NotAsked == [name |-> <<>>, answer |-> FALSE, called |-> FALSE]

\* CopiedState::new() at the first reading of the clock
CopiedInit ==
    /\ StoreIdle
    /\ pc = "ready"
    /\ storage = NoEntry
    /\ returned = NotReturned
    /\ commands = [p \in Processes |-> NoCommand]
    /\ dashboard = [mode |-> "none", accounts |-> <<>>, now |-> 0, asked |-> NotAsked]

\* now.duration_since(copied_time): Err when the copy is later than now
duration_since(now, earlier) ==
    IF now >= earlier THEN [ok |-> TRUE, millis |-> now - earlier]
    ELSE [ok |-> FALSE, millis |-> earlier - now]

\* fn mark_copied: HashMap::insert of the name with SystemTime::now()
mark_copied(accounts, name, now) ==
    [n \in DOMAIN accounts \cup {name} |-> IF n = name THEN now ELSE accounts[n]]

\* an answer that does not look at the time of the copy
copied_at_all(accounts, name, now) == name \in DOMAIN accounts

\* fn is_recently_copied
is_recently_copied(accounts, name, now) ==
    IF name \in DOMAIN accounts
    THEN LET elapsed == duration_since(now, accounts[name])
         IN  elapsed.ok /\ elapsed.millis < RecentMillis
    ELSE FALSE

\* fn cleanup_old_entries: HashMap::retain
cleanup_old_entries(accounts, now) ==
    LET kept == {n \in DOMAIN accounts :
                    LET elapsed == duration_since(now, accounts[n])
                    IN  IF elapsed.ok THEN elapsed.millis < RecentMillis ELSE FALSE}
    IN  [n \in kept |-> accounts[n]]

CopiedOnly ==
    UNCHANGED <<account, duration, pc, result, uri, extracted, storage, returned, commands>>

\* copied_state.mark_copied(name)
MarkCopied ==
    \E name \in CopiedNames :
        /\ dashboard' = [dashboard EXCEPT
                            !.accounts = mark_copied(@, name, dashboard.now)]
        /\ CopiedOnly

\* copied_state.is_recently_copied(name)
IsRecentlyCopied ==
    \E name \in CopiedNames :
        /\ dashboard' = [dashboard EXCEPT
                            !.asked = [name |-> name, called |-> TRUE,
                                       answer |-> is_recently_copied(dashboard.accounts, name,
                                                                     dashboard.now)]]
        /\ CopiedOnly

\* copied_state.cleanup_old_entries()
CleanupOldEntries ==
    /\ dashboard' = [dashboard EXCEPT !.accounts = cleanup_old_entries(@, dashboard.now)]
    /\ CopiedOnly

\* time passes
ClockAdvances ==
    /\ dashboard.now + 500 \in ClockReadings
    /\ dashboard' = [dashboard EXCEPT !.now = @ + 500]
    /\ CopiedOnly

\* the system clock is set back
ClockSetBack ==
    \E earlier \in ClockReadings :
        /\ earlier < dashboard.now
        /\ dashboard' = [dashboard EXCEPT !.now = earlier]
        /\ CopiedOnly

CopiedNext ==
    \/ MarkCopied
    \/ IsRecentlyCopied
    \/ CleanupOldEntries
    \/ ClockAdvances
    \/ ClockSetBack

CopiedSpec == CopiedInit /\ [][CopiedNext]_vars

(***************************************************************************)
(* What the dashboard shows and copies for one account as the clock runs   *)
(* (src/src/dashboard.rs:155-259 and 657-675)                              *)
(***************************************************************************)
\* the seconds the clock runs after the first frame
MaxSeconds == 4

\* the second vector of test_vectors, whose code has a leading zero, and
\* accounts of the periods 3 and 30 and the epochs 0 and 4 from the clock
\* readings 0, 28 and 30
ScreenInputs ==
    {[account |-> RfcAccount(2), duration |-> At(test_vectors[2].time)]}
    \cup {[account |-> [Account_new(S_test, S_JBSWY3DPEHPK3PXP)
                            EXCEPT !.period = p, !.epoch = U64(e)],
           duration |-> At(U64(t))] : p \in {3, 30}, e \in {0, 4}, t \in {0, 28, 30}}

\* nothing is drawn, the clipboard holds no text of the dashboard, and
\* CopiedState::new()
NoScreen ==
    [mode |-> "none", seconds |-> 0, code_str |-> <<>>, secs_until_next_30 |-> 0,
     clipboard |-> None, copied |-> <<>>]

ScreenInit ==
    /\ \E in \in ScreenInputs :
          /\ account = in.account
          /\ duration = in.duration
    /\ pc = "ready"
    /\ result = NoResult
    /\ uri = <<>>
    /\ extracted = NotExtracted
    /\ storage = NoEntry
    /\ returned = NotReturned
    /\ commands = [p \in Processes |-> NoCommand]
    /\ dashboard = NoScreen

\* format!("{:0width$}", code, width = digits as usize)
code_str(code, digits) ==
    LET text == to_string(code)
    IN  IF Len(text) >= digits THEN text
        ELSE [i \in 1..(digits - Len(text)) |-> "0"] \o text

\* clipboard.set_text(format!("{}", code))
set_text(code) == to_string(code)

\* 30 - (now.as_secs() % 30)
secs_until_next_30(now) == 30 - (U64ToInt(as_secs(now)) % 30)

\* one frame at the reading `now` of the clock: render_progress_bar and
\* render_account_line, whose `?` returns the error of generate_totp
render(d, a, now, totp) ==
    IF totp.kind = "Ok"
    THEN [d EXCEPT !.code_str = code_str(totp.code, a.digits),
                   !.secs_until_next_30 = secs_until_next_30(now)]
    ELSE [d EXCEPT !.mode = totp.kind, !.secs_until_next_30 = secs_until_next_30(now)]

ScreenOnly == UNCHANGED <<account, uri, extracted, storage, returned, commands>>

\* the first frame
FirstFrame ==
    /\ pc = "ready"
    /\ \E totp \in generate_totp(account, duration) :
          /\ result' = totp
          /\ dashboard' = render(dashboard, account, duration, totp)
    /\ pc' = "frame"
    /\ UNCHANGED duration
    /\ ScreenOnly

\* the first frame of the next second
NextFrame ==
    /\ pc = "frame"
    /\ dashboard.mode = "none"
    /\ dashboard.seconds < MaxSeconds
    /\ LET now == [duration EXCEPT !.secs = BytesAdd(@, U64(1), 0)]
       IN  /\ duration' = now
           /\ \E totp \in generate_totp(account, now) :
                 /\ result' = totp
                 /\ dashboard' = render([dashboard EXCEPT !.seconds = @ + 1], account, now, totp)
    /\ UNCHANGED pc
    /\ ScreenOnly

\* fn copy_code_to_clipboard, Clipboard::new() succeeding or not
Enter ==
    /\ pc = "frame"
    /\ dashboard.mode = "none"
    /\ \E clipboard \in {"Ok", "Err"}, totp \in generate_totp(account, duration) :
          dashboard' =
              IF totp.kind = "Ok" /\ clipboard = "Ok"
              THEN [dashboard EXCEPT !.clipboard = Some(set_text(totp.code)),
                                     !.copied = mark_copied(@, account.name,
                                                            as_secs(duration))]
              ELSE dashboard
    /\ UNCHANGED <<duration, pc, result>>
    /\ ScreenOnly

ScreenNext == FirstFrame \/ NextFrame \/ Enter

ScreenSpec == ScreenInit /\ [][ScreenNext]_vars

(***************************************************************************)
(* Properties                                                              *)
(***************************************************************************)
\* generate_totp has returned, or has panicked, in this state
Called == pc = "generate_totp"

\* 10^d for d <= 9
PowersOfTen == <<1, 10, 100, 1000, 10000, 100000, 1000000, 10000000, 100000000, 1000000000>>

\* C1: on an account of 8 digits, period 30 and epoch 0 that holds the
\* Base32 text of the RFC 6238 secret of its hash, generate_totp returns at
\* each time of the Appendix B table (test_vectors) exactly the code the
\* table gives for that hash.
RfcConformance ==
    \A i \in 1..18 :
        ( /\ Called
          /\ account = [ name |-> S_test, secret |-> test_vectors[i].secret,
                         issuer |-> S_hotpot, algorithm |-> test_vectors[i].algorithm,
                         digits |-> 8, period |-> 30, epoch |-> U64Zero ]
          /\ duration = At(test_vectors[i].time) )
        => /\ result.kind = "Ok"
           /\ result.code = test_vectors[i].expected_totp

\* the last row of the table under SHA512 has been computed
RfcConformanceWitness ==
    /\ Called
    /\ account.algorithm = S_SHA512
    /\ account.secret = TEST_SECRET_SHA512
    /\ account.digits = 8 /\ account.period = 30 /\ account.epoch = U64Zero
    /\ duration.secs = <<0, 0, 0, 4, 168, 23, 200, 0>>
    /\ result.kind = "Ok"
    /\ result.code = 47863826

\* C2: every code that generate_totp returns is at least 0 and below
\* 10^account.digits (a code is below 2^31, hence below 10^digits as soon as
\* digits >= 10).
CodeRange ==
    (Called /\ result.kind = "Ok")
    => /\ result.code >= 0
       /\ result.code <= 2147483647
       /\ (account.digits <= 9 => result.code < PowersOfTen[account.digits + 1])

\* a code of exactly 6 digits has been returned for a 6-digit account
CodeRangeWitness ==
    /\ Called
    /\ result.kind = "Ok"
    /\ account.digits = 6
    /\ result.code >= 100000

\* the same account counting from the Unix epoch
FromUnixEpoch(acct) == [acct EXCEPT !.epoch = U64Zero]

\* the same clock reading at another second
AtSecs(d, secs) == [d EXCEPT !.secs = secs]

\* C3: with epoch = E, the result of generate_totp at time E + d is the
\* result that the otherwise identical account with epoch = 0 has at time d
\* (d up to MaxDelta, and the 30 seconds of test_custom_epoch).
EpochEquivalence ==
    \A d \in Deltas \cup {30} :
        (Called /\ as_secs(duration) = BytesAdd(account.epoch, U64(d), 0))
        => result \in generate_totp(FromUnixEpoch(account), AtSecs(duration, U64(d)))

\* the call of test_custom_epoch has returned its code, 30 seconds after
\* the epoch 1111111109
EpochEquivalenceWitness ==
    /\ Called
    /\ account.epoch = U64(CustomEpoch)
    /\ as_secs(duration) = U64(CustomEpoch + 30)
    /\ result.kind = "Ok"
    /\ result.code = 94287082

\* floor((t - epoch) / period) for times and epochs below 2^31 and period > 0
TimeStep(acct, secs) == (U64ToInt(secs) - U64ToInt(acct.epoch)) \div acct.period

\* C4: for one account and two times t1, t2 with
\* floor((t1 - epoch) / period) = floor((t2 - epoch) / period),
\* generate_totp returns the same result at t1 and at t2.
SamePeriodSameCode ==
    \A t2 \in Times :
        ( /\ Called
          /\ account.period > 0
          /\ as_secs(duration) \in Times
          /\ t2 # as_secs(duration)
          /\ TimeStep(account, t2) = TimeStep(account, as_secs(duration)) )
        => result \in generate_totp(account, AtSecs(duration, t2))

\* a code has been returned at the second second of a period of 3 seconds
\* that started at the epoch 4: the times 4, 5 and 6 share it
SamePeriodSameCodeWitness ==
    /\ Called
    /\ account.period = 3
    /\ account.epoch = U64(4)
    /\ as_secs(duration) = U64(5)
    /\ TimeStep(account, U64(4)) = TimeStep(account, U64(6))
    /\ TimeStep(account, U64(3)) # TimeStep(account, U64(4))
    /\ TimeStep(account, U64(6)) # TimeStep(account, U64(7))
    /\ result.kind = "Ok"

\* C6: at a time earlier than account.epoch the counter is 0 (the
\* subtraction saturates, it does not wrap), so generate_totp returns the
\* result of the first period after the epoch.
SaturatingCounter ==
    (Called /\ BytesLess(as_secs(duration), account.epoch))
    => /\ saturating_sub(as_secs(duration), account.epoch) = U64Zero
       /\ account.period > 0 => counter(account, duration) = U64Zero
       /\ result \in generate_totp(account, AtSecs(duration, account.epoch))

\* a code has been returned at time 3 for an account whose epoch is the one
\* of test_custom_epoch
SaturatingCounterWitness ==
    /\ Called
    /\ account.epoch = U64(CustomEpoch)
    /\ as_secs(duration) = U64(3)
    /\ result.kind = "Ok"

\* the length in bytes of the digest of each supported algorithm
DigestLength(algorithm) ==
    IF algorithm = S_SHA1 THEN 20
    ELSE IF algorithm = S_SHA256 THEN 32
    ELSE 64

\* C7: whenever generate_totp has computed a digest, the offset is the low
\* 4 bits of the digest's last byte, it lies in 0..15, the four bytes from
\* the offset on lie inside the digest, whose length is 20, 32 or 64 bytes
\* according to the algorithm, the assembled value is those four bytes with
\* the top bit cleared, hence below 2^31, and no index is out of bounds.
DynamicTruncation ==
    (Called /\ result.digest # <<>>)
    => LET digest == result.digest
           last == digest[Len(digest)]
           o == offset(digest)
       IN  /\ Len(digest) = DigestLength(account.algorithm)
           /\ o \in 0..15
           /\ o = last % 16
           /\ o + 4 <= Len(digest)
           /\ binary(digest) = << 256 * (digest[o + 1] % 128) + digest[o + 2],
                                  256 * digest[o + 3] + digest[o + 4] >>
           /\ binary(digest)[1] < 32768
           /\ result.message # "index out of bounds"

\* a 20-byte digest whose last byte has the low bits 1111 has been
\* truncated: the four bytes are those of index 15 to 18, of 0 to 19
DynamicTruncationWitness ==
    /\ Called
    /\ result.kind = "Ok"
    /\ Len(result.digest) = 20
    /\ result.digest[20] % 16 = 15

\* the Base32 alphabet of RFC 4648
Base32UpperCase ==
    { "A", "B", "C", "D", "E", "F", "G", "H", "I", "J", "K", "L", "M",
      "N", "O", "P", "Q", "R", "S", "T", "U", "V", "W", "X", "Y", "Z",
      "2", "3", "4", "5", "6", "7" }

\* the alphabet in either case, and the padding character
Base32Characters ==
    Base32UpperCase
        \cup { "a", "b", "c", "d", "e", "f", "g", "h", "i", "j", "k", "l", "m",
               "n", "o", "p", "q", "r", "s", "t", "u", "v", "w", "x", "y", "z", "=" }

InsideAlphabet(secret) == \A i \in 1..Len(secret) : secret[i] \in Base32UpperCase

OutsideAlphabet(secret) == \E i \in 1..Len(secret) : secret[i] \notin Base32Characters

\* C8: when account.secret holds a character outside the Base32 alphabet,
\* generate_totp returns the error "Bytes could not be decoded": it does
\* not panic, returns no code and computes no digest, whatever the
\* algorithm, digits, period, epoch and time.
InvalidSecretRejected ==
    (Called /\ OutsideAlphabet(account.secret))
    => /\ result.kind = "Err"
       /\ result.message = "Bytes could not be decoded"
       /\ result.digest = <<>>

\* the secret of test_invalid_secret has been rejected on an account whose
\* period is 0 and whose digits overflow the modulus
InvalidSecretRejectedWitness ==
    /\ Called
    /\ account.secret = S_invalid_base32
    /\ account.period = 0
    /\ account.digits = 32
    /\ result.kind = "Err"

SupportedAlgorithms == {S_SHA1, S_SHA256, S_SHA512}

\* C9, as the specification states it: generate_totp returns a code only
\* for the algorithms "SHA1", "SHA256" and "SHA512", and for every other
\* algorithm string it returns the error "Unsupported algorithm" without
\* computing an HMAC.
UnsupportedAlgorithmAlwaysReported ==
    Called
    => /\ result.kind = "Ok" => account.algorithm \in SupportedAlgorithms
       /\ account.algorithm \notin SupportedAlgorithms
              => /\ result.kind = "Err"
                 /\ result.message = "Unsupported algorithm"
                 /\ result.digest = <<>>

\* C9, amended: generate_totp returns a code only for the algorithms
\* "SHA1", "SHA256" and "SHA512".  For every other algorithm string it
\* computes no HMAC and returns no code; the secret is decoded and the
\* counter is divided before the algorithm is looked at, so the call
\* returns "Bytes could not be decoded" when the secret holds a character
\* outside the alphabet, panics on the division when the secret is Base32
\* text and period = 0, and returns "Unsupported algorithm" when the secret
\* is Base32 text and period > 0.
UnsupportedAlgorithmRejected ==
    Called
    => /\ result.kind = "Ok" => account.algorithm \in SupportedAlgorithms
       /\ account.algorithm \notin SupportedAlgorithms
              => /\ result.digest = <<>>
                 /\ result.kind # "Ok"
                 /\ OutsideAlphabet(account.secret)
                        => /\ result.kind = "Err"
                           /\ result.message = "Bytes could not be decoded"
                 /\ (InsideAlphabet(account.secret) /\ account.period = 0)
                        => /\ result.kind = "Panic"
                           /\ result.message = "attempt to divide by zero"
                 /\ (InsideAlphabet(account.secret) /\ account.period > 0)
                        => /\ result.kind = "Err"
                           /\ result.message = "Unsupported algorithm"

\* the call of test_invalid_algorithm, on a secret that decodes and with
\* the default period, has returned its error
UnsupportedAlgorithmRejectedWitness ==
    /\ Called
    /\ account.algorithm = S_SHA999
    /\ account.secret = S_JBSWY3DPEHPK3PXP
    /\ account.period = 30
    /\ result.kind = "Err"
    /\ result.message = "Unsupported algorithm"

\* the decimal text of the digits and periods explored
Decimal(n) ==
    CASE n = 0 -> <<"0">>
      [] n = 3 -> <<"3">>
      [] n = 6 -> <<"6">>
      [] n = 8 -> <<"8">>
      [] n = 10 -> <<"1", "0">>
      [] n = 30 -> <<"3", "0">>
      [] n = 32 -> <<"3", "2">>

\* otpauth://totp/{issuer}:{name}?secret={secret}&issuer={issuer}
\*     &algorithm={algorithm}&digits={digits}&period={period}
OtpauthText(issuer, name, secret, algorithm, digits, period) ==
    <<"o", "t", "p", "a", "u", "t", "h", ":", "/", "/", "t", "o", "t", "p", "/">>
        \o issuer \o <<":">> \o name
        \o <<"?", "s", "e", "c", "r", "e", "t", "=">> \o secret
        \o <<"&", "i", "s", "s", "u", "e", "r", "=">> \o issuer
        \o <<"&", "a", "l", "g", "o", "r", "i", "t", "h", "m", "=">> \o algorithm
        \o <<"&", "d", "i", "g", "i", "t", "s", "=">> \o Decimal(digits)
        \o <<"&", "p", "e", "r", "i", "o", "d", "=">> \o Decimal(period)

\* C10: generate_uri returns exactly
\* otpauth://totp/{issuer}:{name}?secret={secret}&issuer={issuer}&algorithm={algorithm}&digits={digits}&period={period}
\* with the five parameters in this order and every field of the account
\* inserted as it is, unescaped; generate_otpauth_uri returns this text for
\* the account that Account::new makes of its name and secret.
UriFormat ==
    /\ pc = "generate_uri"
           => uri = OtpauthText(account.issuer, account.name, account.secret,
                                account.algorithm, account.digits, account.period)
    /\ pc = "generate_otpauth_uri"
           => uri = OtpauthText(<<"h", "o", "t", "p", "o", "t">>, account.name,
                                account.secret, <<"S", "H", "A", "1">>, 6, 30)

\* the text has been generated for an account whose name and issuer hold
\* the characters & = and a space, which stand in it unescaped
UriFormatWitness ==
    /\ pc = "generate_uri"
    /\ account.name = <<"a", "&", "b", "=", "c">>
    /\ account.issuer = <<"A", "&", "B", " ", "%">>
    /\ account.digits = 10
    /\ account.period = 0
    /\ uri[17] = "&" /\ uri[19] = " " /\ uri[23] = "&" /\ uri[25] = "="

(***************************************************************************)
(* Properties of the URI decoder                                           *)
(***************************************************************************)
\* both extract_ functions have returned
Decoded == extracted.called = {"account", "secret"}

\* C11: for the account named "test" with the secret "JBSWY3DPEHPK3PXP"
\* and the issuer "hotpot", decoding the text that generate_uri returns
\* recovers the same name and the same secret.
UriRoundTrip ==
    ( /\ pc = "generate_uri"
      /\ Decoded
      /\ account = Account_new(S_test, S_JBSWY3DPEHPK3PXP) )
    => /\ extracted.name = Some(account.name)
       /\ extracted.secret = Some(account.secret)

\* the URI of that account has been decoded: the secret is recovered, the
\* name comes back with the issuer in front
UriRoundTripWitness ==
    /\ pc = "generate_uri"
    /\ Decoded
    /\ account = Account_new(S_test, S_JBSWY3DPEHPK3PXP)
    /\ extracted.secret = Some(S_JBSWY3DPEHPK3PXP)
    /\ extracted.name = Some(S_hotpot_test)

\* the path segment of an otpauth://totp/ text: what stands between the
\* prefix and the first '?'
PathSegmentOf(text) ==
    LET path == SubSeq(text, Len(S_otpauth_totp) + 1, Len(text))
    IN  SubSeq(path, 1, FirstOf(path, {"?"}))

\* what follows the last ':' of a segment, the whole segment without one
AfterLastColon(segment) == SubSeq(segment, rfind(segment, ":") + 1, Len(segment))

\* C12: the account name that URI decode extracts is the path segment
\* after otpauth://totp/ up to the '?', cut after its last ':' when it
\* holds one (the issuer prefix is dropped) and whole otherwise, then
\* percent-decoded.
AccountNameAfterLastColon ==
    ( /\ "account" \in extracted.called
      /\ starts_with(uri, S_otpauth_totp)
      /\ IsUtf8(percent_decode(PathSegmentOf(uri), "")) )
    => extracted.name = Some(percent_decode(AfterLastColon(PathSegmentOf(uri)), ""))

\* a scanned text whose label holds an issuer has been decoded: the name
\* returned is the whole label
AccountNameAfterLastColonWitness ==
    /\ pc = "scanned"
    /\ "account" \in extracted.called
    /\ PathSegmentOf(uri) = S_hotpot_test
    /\ starts_with(uri, S_otpauth_totp)
    /\ extracted.name = Some(S_hotpot_test)

\* the parameters of a query that are named secret
RECURSIVE SecretParams(_)
SecretParams(query) ==
    IF query = <<>> THEN <<>>
    ELSE (IF Head(query).name = S_secret THEN <<Head(query)>> ELSE <<>>)
             \o SecretParams(Tail(query))

\* a text of these parts is a URL: it starts with a scheme, and what
\* follows the "//" of the scheme invalid: is a host, with no port that is
\* not a number
IsUrl(prefix, label) ==
    /\ prefix # S_no_scheme
    /\ prefix = S_invalid_scheme => \A i \in 1..Len(label) : label[i] # ":"

\* C13, as the specification states it: URI decode yields no secret for
\* every URI without a secret query parameter, and returns the value of
\* the parameter unchanged, as it is written in the URI, when there is one.
SecretReturnedUnchanged ==
    \A p \in QrPrefixes, l \in QrLabels, q \in QrQueries :
        ("secret" \in extracted.called /\ uri = QrContent(p, l, q))
        => LET secrets == SecretParams(q)
           IN  IF secrets = <<>> THEN ~extracted.secret.some
               ELSE /\ extracted.secret.some
                    /\ \E i \in 1..Len(secrets) : extracted.secret.bytes = secrets[i].raw

\* C13, amended: URI decode yields no secret for every URI without a
\* secret query parameter, and for every text that is not a URL.  When the
\* text is a URL with a secret parameter, it returns the value of the last
\* one, cut at a '#', with each '+' read as a space and each %XY escape as
\* the byte it stands for; a value without these characters, as a Base32
\* secret is, comes back unchanged.
SecretParameterDecoded ==
    \A p \in QrPrefixes, l \in QrLabels, q \in QrQueries :
        ("secret" \in extracted.called /\ uri = QrContent(p, l, q))
        => LET secrets == SecretParams(q)
           IN  IF secrets = <<>> \/ ~IsUrl(p, l) THEN ~extracted.secret.some
               ELSE extracted.secret = Some(secrets[Len(secrets)].value)

\* the secret A%20B+C of an otpauth://totp/ text has been read as "A B C"
SecretParameterDecodedWitness ==
    /\ "secret" \in extracted.called
    /\ uri = QrContent(S_otpauth_totp, S_GitHub,
                       <<Param(S_secret, <<"A", "%", "2", "0", "B", "+", "C">>, <<"A", " ", "B", " ", "C">>)>>)
    /\ extracted.secret = Some(<<"A", " ", "B", " ", "C">>)

\* C14: for every text that is not an otpauth://totp/ URI (another scheme
\* such as invalid://, another type such as otpauth://hotp/), URI decode
\* yields a failure value for the name and for the secret.
NonOtpauthRejected ==
    (Decoded /\ ~starts_with(uri, S_otpauth_totp))
    => /\ ~extracted.name.some
       /\ ~extracted.secret.some

\* an otpauth://hotp/ text with a secret has been decoded: no name, but a
\* secret
NonOtpauthRejectedWitness ==
    /\ Decoded
    /\ starts_with(uri, S_otpauth_hotp)
    /\ ~extracted.name.some
    /\ extracted.secret = Some(S_ABC123)

\* the record the keyring entry holds
TheRecord == storage.accounts[1]

\* the record has been loaded into account
Loaded ==
    \/ pc = "copy_code_to_clipboard"
    \/ pc = "Commands::Code" /\ returned.ok

\* C15: loading a stored record that has a name and a secret and lacks any
\* subset of the optional fields succeeds, with the name, the secret and the
\* fields present as stored and each missing field at its default: issuer
\* "hotpot", algorithm "SHA1", digits 6, period 30, epoch 0, the values of
\* Account::new.  A record without `secret` does not load.
MissingFieldsDefaulted ==
    LET r == TheRecord
        new == Account_new(account.name, account.secret)
        Stored(f, v) == IF f \in DOMAIN r THEN v = r[f] ELSE FALSE
        Loads(f, default) == IF f \in DOMAIN r THEN account[f] = r[f].s
                             ELSE account[f] = default /\ account[f] = new[f]
        LoadsNumber(f, default) == IF f \in DOMAIN r THEN account[f] = r[f].n
                                   ELSE account[f] = default /\ account[f] = new[f]
    IN  /\ ("secret" \notin DOMAIN r)
           => /\ ~Loaded
              /\ pc = "Commands::Code" => returned = Failed(S_Serialization_error)
        /\ (/\ pc = "Commands::Code"
            /\ Stored("name", JStr(S_github))
            /\ Stored("secret", JStr(S_JBSWY3DPEHPK3PXP)))
           => \/ returned.ok
              \/ returned = Failed(S_Account_ \o S_b \o S_not_found)
        /\ Loaded
           => /\ Stored("name", JStr(account.name))
              /\ Stored("secret", JStr(account.secret))
              /\ Loads("issuer", <<"h", "o", "t", "p", "o", "t">>)
              /\ Loads("algorithm", <<"S", "H", "A", "1">>)
              /\ LoadsNumber("digits", 6)
              /\ LoadsNumber("period", 30)
              /\ IF "epoch" \in DOMAIN r THEN U64ToInt(account.epoch) = r.epoch.n
                 ELSE account.epoch = <<0, 0, 0, 0, 0, 0, 0, 0>> /\ account.epoch = new.epoch

\* the record {"name": "github", "secret": "JBSWY3DPEHPK3PXP"} has been
\* loaded by hotpot code github: the account is the one Account::new makes
MissingFieldsDefaultedWitness ==
    /\ pc = "Commands::Code"
    /\ returned.ok
    /\ DOMAIN TheRecord = {"name", "secret"}
    /\ account = Account_new(S_github, S_JBSWY3DPEHPK3PXP)
    /\ account.period = 30

\* a record without secret has been asked for: the load fails
SecretMissingWitness ==
    /\ pc = "Commands::Code"
    /\ "secret" \notin DOMAIN TheRecord
    /\ "name" \in DOMAIN TheRecord
    /\ returned = Failed(S_Serialization_error)

\* generate_totp has been called on a loaded account and has come to the
\* computation of the counter: the secret has been decoded
CounterComputed == Loaded /\ secret_bytes(account).some

\* C19: every account that reaches the counter computation of
\* generate_totp has period > 0, and the division by account.period does
\* not divide by zero.
PeriodPositive ==
    CounterComputed => account.period > 0 /\ result.kind # "Panic"

\* the record {"name": "github", "secret": "JBSWY3DPEHPK3PXP", "period": 0}
\* has been loaded and hotpot code github has divided by its period
PeriodPositiveWitness ==
    /\ pc = "Commands::Code"
    /\ CounterComputed
    /\ DOMAIN TheRecord = {"name", "secret", "period"}
    /\ TheRecord.period = JNum(0)
    /\ account.period = 0
    /\ result = Panic("attempt to divide by zero", <<>>)

\* the accounts the keyring entry holds
StoredAccounts == get_storage(storage, "ok").accounts

\* an add command has returned
Added == pc \in {"Commands::Add", "handle_add_mode", "handle_screenshot_add"}

\* a delete command has returned
Deleted == pc \in {"Commands::Delete", "handle_delete_confirmation"}

\* the names the add paths save under
AddNames == CliNames \cup {S_GitHub}

AlreadyExists(name) == Failed(S_Account_ \o name \o S_already_exists)

\* C16: after any sequence of save_account and delete_account calls from
\* an empty store no two stored accounts have the same name; save_account
\* with a name that is present returns the 'already exists' error (the
\* keyring entry being readable), and a step that returns this error leaves
\* the store as it was.
NoDuplicateNames ==
    /\ [](/\ \A i, j \in 1..Len(StoredAccounts) :
                i # j => StoredAccounts[i].name # StoredAccounts[j].name
          /\ \A name \in AddNames, secret \in CliSecrets,
                   keyring \in KeyringOutcomes \ {"get fails"} :
                (\E i \in 1..Len(StoredAccounts) : StoredAccounts[i].name = name)
                => save_account(storage, name, secret, keyring)
                       = [storage |-> storage, returned |-> AlreadyExists(name)])
    /\ [][(Added' /\ \E name \in AddNames : returned' = AlreadyExists(name))
          => storage' = storage]_vars

\* hotpot add b has been refused: the store holds an account b
NoDuplicateNamesWitness ==
    /\ pc = "Commands::Add"
    /\ returned = AlreadyExists(S_b)
    /\ \E i \in 1..Len(StoredAccounts) : StoredAccounts[i].name = S_b

\* C17: every account name held in the store is non-empty, whichever add
\* path created it (hotpot add, the Add mode of the dashboard, the import
\* of a QR code).
NamesNonEmpty ==
    \A i \in 1..Len(StoredAccounts) : StoredAccounts[i].name # <<>>

\* the QR code otpauth://totp/?secret=JBSWY3DPEHPK3PXP has been imported
\* under its default name: the store holds an account without a name
NamesNonEmptyWitness ==
    /\ pc = "handle_screenshot_add"
    /\ returned.ok
    /\ Len(StoredAccounts) = 1
    /\ StoredAccounts[1].name = <<>>
    /\ StoredAccounts[1].secret = S_JBSWY3DPEHPK3PXP

\* C18: every account held in the store has a secret that is valid
\* unpadded Base32 and decodes to at least one byte, and generate_totp
\* returns no code computed from an empty key.
SecretsDecodeToKey ==
    /\ \A i \in 1..Len(StoredAccounts) :
          /\ decode(StoredAccounts[i].secret).some
          /\ Len(decode(StoredAccounts[i].secret).bytes) >= 1
    /\ (pc = "copy_code_to_clipboard" /\ result.kind = "Ok")
       => Len(secret_bytes(account).bytes) >= 1

\* the account b saved with the secret "" has been selected: generate_totp
\* has returned a code for the key of no byte
SecretsDecodeToKeyWitness ==
    /\ pc = "copy_code_to_clipboard"
    /\ account.name = S_b
    /\ account.secret = <<>>
    /\ secret_bytes(account) = Some(<<>>)
    /\ result.kind = "Ok"

\* where the account of a name stands in a list
PositionOf(accounts, name) ==
    CHOOSE k \in 1..Len(accounts) : accounts[k].name = name

\* C20: the stored list is sorted ascending by name after every
\* save_account, and a delete_account keeps the accounts that remain in the
\* order they had, so that the list is sorted after any sequence of adds
\* and deletes from an empty store.
SortedByName ==
    /\ [](\A i, j \in 1..Len(StoredAccounts) :
              i < j => ~StrLess(StoredAccounts[j].name, StoredAccounts[i].name))
    /\ [][(Deleted' /\ returned'.ok)
          => /\ Len(StoredAccounts') = Len(StoredAccounts) - 1
             /\ \A i \in 1..Len(StoredAccounts') :
                   \E k \in 1..Len(StoredAccounts) : StoredAccounts[k] = StoredAccounts'[i]
             /\ \A i, j \in 1..Len(StoredAccounts') :
                   i < j => PositionOf(StoredAccounts, StoredAccounts'[i].name)
                                < PositionOf(StoredAccounts, StoredAccounts'[j].name)]_vars

\* b, then the empty name, then GitHub have been saved: the list is in the
\* order "", GitHub, b
SortedByNameWitness ==
    /\ Added
    /\ returned.ok
    /\ Len(StoredAccounts) = 3
    /\ StoredAccounts[1].name = <<>>
    /\ StoredAccounts[2].name = S_GitHub
    /\ StoredAccounts[3].name = S_b

\* an account has been deleted from a list of three: two remain
SortedByNameDeleteWitness ==
    /\ Deleted
    /\ returned.ok
    /\ Len(StoredAccounts) = 2

\* C21: a successful delete_account(name) removes the account of that name
\* and nothing else: the list is one account shorter, the name is not in it
\* any more, and every other stored account is still there, unchanged.
DeleteRemovesOne ==
    [][(Deleted' /\ returned'.ok)
       => \E k \in 1..Len(StoredAccounts) :
             LET name == StoredAccounts[k].name
             IN  /\ Len(StoredAccounts') = Len(StoredAccounts) - 1
                 /\ \A j \in 1..Len(StoredAccounts') : StoredAccounts'[j].name # name
                 /\ \A i \in 1..Len(StoredAccounts) :
                       StoredAccounts[i].name # name
                       => \E j \in 1..Len(StoredAccounts') :
                             StoredAccounts'[j] = StoredAccounts[i]]_vars

\* hotpot delete b on a store of three accounts: the two others remain
DeleteRemovesOneWitness ==
    /\ pc = "Commands::Delete"
    /\ returned.ok
    /\ Len(StoredAccounts) = 2
    /\ StoredAccounts[1].name = <<>>
    /\ StoredAccounts[2].name = S_GitHub

\* the names of the accounts of the keyring entry, as they are written
WrittenNames == {storage.accounts[i].name.s : i \in 1..Len(storage.accounts)}

\* process p starts a command in this step
Starts(p) == commands[p].at = "exit" /\ commands'[p] # commands[p]

NotFound(name) == Failed(S_Account_ \o name \o S_not_found)

Reads(p) ==
    /\ commands'[p] # commands[p]
    /\ commands'[p].command \in {"code", "list", "export-qr"}

InvalidDocumentKept ==
    /\ [](storage \in InvalidDocuments
          => \A p \in Processes :
                commands[p].command # "none"
                => /\ commands[p].at = "exit"
                   /\ commands[p].returned = Failed(S_Serialization_error))
    /\ [][(storage \in InvalidDocuments) => storage' = storage]_vars

\* hotpot add and hotpot delete have failed on the truncated document
InvalidDocumentKeptWitness ==
    /\ storage = [entry |-> TRUE, accounts |-> <<>>, text |-> S_incomplete]
    /\ commands["first"].command = "add"
    /\ commands["first"].returned = Failed(S_Serialization_error)
    /\ commands["second"].command = "delete"
    /\ commands["second"].returned = Failed(S_Serialization_error)

\* C25: no update is lost: a save_account that returns Ok leaves in the
\* store every account that was in it, and the new one, also when another
\* save_account has loaded and stored in between.
NoLostUpdate ==
    [][\A p \in Processes :
          (/\ commands[p].command = "add"
           /\ commands[p].at = "save_storage"
           /\ commands'[p].at = "exit")
          => /\ commands[p].name \in WrittenNames'
             /\ WrittenNames \subseteq WrittenNames']_vars

\* both hotpot add have returned Ok, for b and for github, and the store
\* holds one account
NoLostUpdateWitness ==
    /\ commands["first"].command = "add"
    /\ commands["first"].at = "exit"
    /\ commands["first"].returned = Done
    /\ commands["second"].command = "add"
    /\ commands["second"].at = "exit"
    /\ commands["second"].returned = Done
    /\ commands["first"].name # commands["second"].name
    /\ Len(storage.accounts) = 1

\* the character c is typed while the loop of show() runs
Pressed(c) ==
    \E term_height \in Heights, elapsed \in BOOLEAN :
        /\ FrameDrawn(term_height, elapsed)
        /\ Room(c)
        /\ dashboard' = key_char(c, Drawn(term_height, elapsed))
        /\ storage' = storage

\* C26: in the modes where text is entered a character key is always taken
\* as text: in the Search mode every character typed is appended to the
\* query and the selection goes back to 0, in the Add mode every character
\* typed is appended to the name buffer, and the dashboard keeps running.
TypedCharactersAreText ==
    [][\A c \in TextChars :
          (dashboard.mode \in {"Search", "Add"} /\ Pressed(c))
          => /\ dashboard'.at = "loop"
             /\ dashboard'.mode = dashboard.mode
             /\ dashboard.mode = "Search"
                => /\ dashboard'.query = Append(dashboard.query, c)
                   /\ dashboard'.selected = 0
             /\ dashboard.mode = "Add"
                => dashboard'.name_buffer = Append(dashboard.name_buffer, c)]_vars

\* show() has returned from the Add mode with what was typed so far in the
\* buffer
TypedCharactersAreTextWitness ==
    /\ dashboard.mode = "Add"
    /\ dashboard.at = "returned Ok"
    /\ dashboard.name_buffer = <<"a">>

\* C27: Esc ends the dashboard only in the List mode; in the Search, Add and
\* AddMethod modes it brings the dashboard back to the List mode, which
\* keeps running, and the store is not changed.
EscLeavesOnlyTheList ==
    [][KeyEsc
       => /\ storage' = storage
          /\ dashboard.mode = "List" => dashboard'.at = "returned Ok"
          /\ dashboard.mode \in {"Search", "Add", "AddMethod"}
             => /\ dashboard'.mode = "List"
                /\ dashboard'.at = "loop"
                /\ dashboard'.storage = dashboard.storage]_vars

\* the List mode with a blank left in the name buffer: the Add mode was
\* left with Esc, Enter does nothing on a blank name
EscLeavesOnlyTheListWitness ==
    /\ dashboard.mode = "List"
    /\ dashboard.at = "loop"
    /\ dashboard.name_buffer = <<" ">>

\* the names of the accounts in the keyring entry
NamesIn(entry) == {entry.accounts[i].name.s : i \in 1..Len(entry.accounts)}

EnterInAddMode ==
    [][(dashboard.mode = "Add" /\ KeyEnter)
       => IF trim(dashboard.name_buffer) = <<>>
          THEN /\ storage' = storage
               /\ dashboard'.mode = "Add"
               /\ dashboard'.at = "loop"
               /\ dashboard'.storage = dashboard.storage
          ELSE /\ dashboard'.mode = "List"
               /\ dashboard'.at = "loop"
               /\ dashboard'.storage = get_storage(storage', "ok").accounts
               /\ dashboard.name_buffer \in NamesIn(storage) => storage' = storage
               /\ storage' # storage
                  => /\ NamesIn(storage') = NamesIn(storage) \cup {dashboard.name_buffer}
                     /\ Len(storage'.accounts) = Len(storage.accounts) + 1]_vars

\* the List mode after Enter on the name a, which is stored, the buffer
\* still holding it
EnterInAddModeWitness ==
    /\ dashboard.mode = "List"
    /\ dashboard.at = "loop"
    /\ dashboard.name_buffer = <<"a">>
    /\ \E i \in 1..Len(dashboard.storage) : dashboard.storage[i].name = <<"a">>

\* C30: Up and Down keep the selection inside the rows displayed: Up at the
\* index 0 leaves it at 0, and Down increments it only while selected + 1 is
\* less than the number of accounts listed and less than the height of the
\* terminal minus 4.
SelectionInsideRows ==
    [][/\ KeyUp
          => /\ dashboard.selected = 0 => dashboard'.selected = 0
             /\ dashboard'.selected \in {dashboard.selected, dashboard.selected - 1}
       /\ KeyDown
          => /\ dashboard'.selected \in {dashboard.selected, dashboard.selected + 1}
             /\ dashboard'.selected = dashboard.selected + 1
                => /\ dashboard.selected + 1 < Len(Listed(dashboard))
                   /\ dashboard.selected + 1 < dashboard'.height - 4]_vars

\* the second account is selected on a terminal of three lines, where no
\* row of accounts is displayed
SelectionInsideRowsWitness ==
    /\ dashboard.mode = "List"
    /\ dashboard.at = "loop"
    /\ dashboard.height = 3
    /\ dashboard.selected = 1

\* C31: at every frame of the dashboard that shows at least one account,
\* the selection is the index of one of the rows shown, so that one row is
\* highlighted and Enter, 'd' and 'e' act on an account, whatever keys,
\* adds, confirmed deletes, search edits and changes of the terminal size
\* came before.
SelectionOnARow ==
    (dashboard.mode # "none" /\ dashboard.at = "loop")
    => \A term_height \in Heights :
          (/\ frame(dashboard, term_height) = "Ok"
           /\ displayed_rows(dashboard, term_height) # <<>>)
          => dashboard.selected < Len(displayed_rows(dashboard, term_height))

\* the last of two accounts was selected and deleted: one account is
\* listed, and the selection is still 1
SelectionOnARowWitness ==
    /\ dashboard.mode = "List"
    /\ dashboard.at = "loop"
    /\ Len(dashboard.storage) = 1
    /\ dashboard.selected = 1
    /\ dashboard.overflow_checks

\* 'd' is pressed in the List mode on a selected account, and the line
\* confirm is typed at the question
Answered(confirm) ==
    \E term_height \in Heights, elapsed \in BOOLEAN :
        LET d == Drawn(term_height, elapsed)
            after == handle_delete_confirmation(d, storage, Listed(d)[d.selected + 1],
                                                confirm, "ok")
        IN  /\ dashboard.mode = "List"
            /\ dashboard.selected < Len(dashboard.storage)
            /\ dashboard'.height = term_height
            /\ FrameDrawn(term_height, elapsed)
            /\ dashboard' = after.d
            /\ storage' = after.storage

\* the lines that are y or Y between whitespace
YesLines == {<<"y", "\n">>, <<" ", "Y", " ", "\n">>}

\* C34: 'd' in the List mode deletes the selected account only when the
\* line typed at the question is y or Y, whitespace around it ignored; for
\* every other line, and when no account is selected, the store is
\* unchanged and the dashboard goes on in the List mode.
DeleteOnlyOnYes ==
    [][dashboard.mode = "List"
       => /\ \A confirm \in ConfirmLines :
                Answered(confirm)
                => /\ dashboard'.mode = "List"
                   /\ dashboard'.at = "loop"
                   /\ IF confirm \in YesLines
                      THEN /\ NamesIn(storage') = NamesIn(storage)
                                   \ {dashboard.storage[dashboard.selected + 1].name}
                           /\ Len(storage'.accounts) = Len(storage.accounts) - 1
                           /\ dashboard'.storage = get_storage(storage', "ok").accounts
                      ELSE /\ storage' = storage
                           /\ dashboard'.storage = dashboard.storage
          /\ (dashboard.selected >= Len(dashboard.storage) /\ KeyDelete)
             => /\ storage' = storage
                /\ dashboard'.mode = "List"
                /\ dashboard'.at = "loop"
                /\ dashboard'.storage = dashboard.storage]_vars

\* the List mode with the selection 1 on the one account left of two: a
\* delete was confirmed, and 'd' now finds no account
DeleteOnlyOnYesWitness ==
    /\ dashboard.mode = "List"
    /\ dashboard.at = "loop"
    /\ dashboard.selected = 1
    /\ Len(dashboard.storage) = 1
    /\ Len(storage.accounts) = 1
    /\ ~dashboard.overflow_checks

\* C35: a failure of generate_totp for one stored account (a secret that
\* does not decode, an algorithm that is not supported) does not stop the
\* dashboard: no frame ends show() with the error of a row.
RenderFailureKeepsRunning ==
    [][~(FrameFails /\ dashboard'.at = "returned Err")]_vars

\* show() has returned the error after an account was added with a secret
\* that is not Base32
RenderFailureKeepsRunningWitness ==
    /\ dashboard.mode = "List"
    /\ dashboard.at = "returned Err"
    /\ \E i \in 1..Len(dashboard.storage) : dashboard.storage[i].secret = S_1

\* C36: whenever show() returns, with Ok or with Err, the terminal is
\* restored: raw mode is disabled and the cursor is shown.
TerminalRestored ==
    (dashboard.mode # "none" /\ dashboard.at \in {"returned Ok", "returned Err"})
    => (~dashboard.raw_mode /\ dashboard.cursor)

\* show() has returned the error of a keyring entry that is not a storage
\* document, in raw mode and with the cursor hidden
TerminalRestoredWitness ==
    /\ dashboard.mode # "none"
    /\ dashboard.at = "returned Err"
    /\ storage \in InvalidDocuments
    /\ dashboard.raw_mode
    /\ ~dashboard.cursor

\* C37: for every height size() reports, the heights below 4 included, the
\* number of rows of accounts, height - 4, is computed without unsigned
\* underflow, for the frame and for the Down key: no step of the loop
\* panics, and both differences are the number height - 4.
RowsWithoutUnderflow ==
    [][Running
       => /\ dashboard'.at # "panicked"
          /\ max_display(dashboard'.height) = dashboard'.height - 4
          /\ usize_minus_4(dashboard'.height) = U64(dashboard'.height - 4)]_vars

\* a build with overflow checks has panicked at the height 3
RowsWithoutUnderflowWitness ==
    /\ dashboard.mode # "none"
    /\ dashboard.at = "panicked"
    /\ dashboard.height = 3
    /\ dashboard.overflow_checks

(***************************************************************************)
(* CopiedState against the clock                                           *)
(***************************************************************************)
\* the time on the clock since the copy of name; negative after the clock was set back
Elapsed(name) == dashboard.now - dashboard.accounts[name]

\* what the three calls of CopiedState do in a step, recent(name) being the
\* condition under which the copy of name counts as recent
CopiedStateStep(recent(_)) ==
    /\ (IsRecentlyCopied /\ dashboard'.asked.called /\ dashboard'.accounts = dashboard.accounts
            /\ dashboard'.now = dashboard.now)
        => dashboard'.asked.answer
            = (/\ dashboard'.asked.name \in DOMAIN dashboard.accounts
               /\ recent(dashboard'.asked.name))
    /\ \A name \in CopiedNames :
        (dashboard' = [dashboard EXCEPT !.accounts = mark_copied(@, name, dashboard.now)])
        => /\ is_recently_copied(dashboard'.accounts, name, dashboard'.now)
           /\ \A other \in CopiedNames \ {name} :
                /\ other \in DOMAIN dashboard'.accounts <=> other \in DOMAIN dashboard.accounts
                /\ other \in DOMAIN dashboard.accounts
                    => dashboard'.accounts[other] = dashboard.accounts[other]
    /\ (CleanupOldEntries /\ dashboard'.asked = dashboard.asked)
        => /\ DOMAIN dashboard'.accounts = {n \in DOMAIN dashboard.accounts : recent(n)}
           /\ \A n \in DOMAIN dashboard'.accounts :
                /\ dashboard'.accounts[n] = dashboard.accounts[n]
                /\ is_recently_copied(dashboard'.accounts, n, dashboard'.now)

\* C32: after mark_copied(name) is_recently_copied(name) is true while less than 2 seconds
\* have elapsed and false from 2 seconds on, the other names are unaffected, and
\* cleanup_old_entries removes exactly the entries aged 2 seconds or more
CopiedTiming == [][CopiedStateStep(LAMBDA n : Elapsed(n) < RecentMillis)]_vars

\* C32, amended: the same with the time elapsed read on the system clock, a copy
\* that is later than the reading of the clock being not recent and removed by
\* cleanup_old_entries
CopiedTimingOnTheClock ==
    [][CopiedStateStep(LAMBDA n : 0 <= Elapsed(n) /\ Elapsed(n) < RecentMillis)]_vars

\* a copy one second in the future of the clock is answered "not recently copied"
CopiedTimingWitness ==
    /\ dashboard.mode = "none"
    /\ pc = "ready"
    /\ dashboard.asked.called
    /\ ~dashboard.asked.answer
    /\ dashboard.asked.name \in DOMAIN dashboard.accounts
    /\ dashboard.accounts[dashboard.asked.name] = dashboard.now + 1000

(***************************************************************************)
(* The modulus of the truncation                                           *)
(***************************************************************************)
\* C38: for every digits value an account can hold, 10u32.pow(digits) is computed
\* without overflowing 32 bits: a call of generate_totp that has computed its
\* HMAC neither aborts nor reduces modulo a wrapped power.
ModulusFitsU32 ==
    (pc = "generate_totp" /\ result.digest # <<>>)
    => /\ result.kind = "Ok"
       /\ ~modulus(account).overflow

\* generate_totp has returned a code of an account of 10 digits, reduced
\* modulo the wrapped power
ModulusFitsU32Witness ==
    /\ pc = "generate_totp"
    /\ account.digits = 10
    /\ result.kind = "Ok"
    /\ modulus(account).overflow
    /\ modulus(account).value # U32(0)

(***************************************************************************)
(* The code on the screen, on the clipboard and under the countdown        *)
(***************************************************************************)
\* C33: when Enter copies the code of the selected account, the text on the
\* clipboard is the string the dashboard displays for the account in that
\* second: the code padded with zeros on the left to account.digits characters.
ClipboardIsDisplayedCode ==
    (/\ pc = "frame"
     /\ dashboard.mode = "none"
     /\ account.name \in DOMAIN dashboard.copied
     /\ dashboard.copied[account.name] = as_secs(duration))
    => /\ dashboard.clipboard = Some(dashboard.code_str)
       /\ Len(dashboard.clipboard.bytes) = account.digits

\* the code 7081804 of the second test vector is displayed as 07081804 and
\* copied as 7081804
ClipboardIsDisplayedCodeWitness ==
    /\ pc = "frame"
    /\ account = RfcAccount(2)
    /\ duration = At(test_vectors[2].time)
    /\ result.code = test_vectors[2].expected_totp
    /\ dashboard.code_str = <<"0", "7", "0", "8", "1", "8", "0", "4">>
    /\ dashboard.clipboard = Some(<<"7", "0", "8", "1", "8", "0", "4">>)

\* C39: the code displayed for an account changes from one frame to the next
\* only where the countdown wraps, the clock reading a multiple of 30
\* seconds, whatever the period and the epoch of the account.
CodeChangesWhereCountdownWraps ==
    [][(/\ pc = "frame"
        /\ pc' = "frame"
        /\ dashboard.mode = "none"
        /\ dashboard'.mode = "none"
        /\ dashboard'.code_str # dashboard.code_str)
       => /\ dashboard'.secs_until_next_30 = 30
          /\ U64ToInt(as_secs(duration')) % 30 = 0]_vars

\* the account of period 3 at the clock reading 3: the countdown shows 27
\* seconds, and the code displayed is not the code of the second before
CodeChangesWhereCountdownWrapsWitness ==
    /\ pc = "frame"
    /\ dashboard.mode = "none"
    /\ account.period = 3
    /\ account.epoch = U64(0)
    /\ as_secs(duration) = U64(3)
    /\ dashboard.secs_until_next_30 = 27
    /\ \E before \in generate_totp(account, At(U64(2))) :
          /\ before.kind = "Ok"
          /\ code_str(before.code, account.digits) # dashboard.code_str
====
